---------------------------- MODULE Spec2Model ----------------------------
(***************************************************************************)
(* A model of the PIR force-dominance pass                                 *)
(* (rir/src/compiler/opt/force_dominance.cpp).                             *)
(*                                                                         *)
(* The abstract state ForcedBy, its operations and merges, the transfer    *)
(* function ForceDominanceAnalysis::apply and the three phases of          *)
(* ForceDominance::apply are translated from the source.  The generic      *)
(* fixed-point engine (StaticAnalysis), the value helpers (followCasts,    *)
(* followCastsAndForce), the CFG edit primitives and the visitors live in  *)
(* headers that are not part of the sources at hand; they are modelled     *)
(* from their description in the specification.                            *)
(*                                                                         *)
(* Values are instruction ids (positive integers).  0 stands for "no       *)
(* value" (nullptr / UnboundValue) and -1 for the ambiguous sentinel.      *)
(***************************************************************************)
EXTENDS Integers, Sequences, FiniteSets, TLC

null == 0

\* ForcedBy::ambiguous(): the process-wide sentinel Force, never part of the IR
ambiguous == -1

(***************************************************************************)
(* AbstractResult of the analysis framework: None < Updated <              *)
(* LostPrecision < Tainted.                                                *)
(***************************************************************************)
ResNone == 0
ResUpdated == 1
ResLostPrecision == 2
ResTainted == 3

ResMax(a, b) == IF a >= b THEN a ELSE b

(***************************************************************************)
(* struct ForcedBy                                                         *)
(***************************************************************************)
EmptyMap == [v \in {} |-> null]

Put(m, k, x) == [v \in (DOMAIN m) \cup {k} |-> IF v = k THEN x ELSE m[v]]

Erase(m, k) == [v \in (DOMAIN m) \ {k} |-> m[v]]

EmptyState ==
    [forcedBy |-> EmptyMap, inScope |-> {}, escaped |-> {},
     argumentForceOrder |-> <<>>, ambiguousForceOrder |-> FALSE]

Count(s, v) == v \in DOMAIN s.forcedBy

\* declare without the assignment of line 76: erasing the escaped entry is
\* not reported
declareSilentOnEscaped(s, arg) ==
    [st |-> [s EXCEPT !.inScope = @ \cup {arg},
                      !.forcedBy = Erase(@, arg),
                      !.escaped = @ \ {arg}],
     changed |-> (arg \notin s.inScope) \/ Count(s, arg)]

\* bool declare(Value* arg)
declare(s, arg) ==
    [st |-> [s EXCEPT !.inScope = @ \cup {arg},
                      !.forcedBy = Erase(@, arg),
                      !.escaped = @ \ {arg}],
     changed |-> (arg \notin s.inScope) \/ Count(s, arg) \/ (arg \in s.escaped)]

\* sideeffect looping over inScope instead of escaped (line 87): every known
\* value without an entry is marked
sideeffectOnScope(s) ==
    LET hit == {e \in s.inScope : ~Count(s, e)}
    IN  [st |-> [s EXCEPT !.forcedBy =
                    [v \in (DOMAIN s.forcedBy) \cup hit |->
                        IF v \in hit THEN ambiguous ELSE s.forcedBy[v]]],
         changed |-> hit # {}]

\* bool sideeffect()
sideeffect(s) ==
    LET hit == {e \in s.escaped : ~Count(s, e)}
    IN  [st |-> [s EXCEPT !.forcedBy =
                    [v \in (DOMAIN s.forcedBy) \cup hit |->
                        IF v \in hit THEN ambiguous ELSE s.forcedBy[v]]],
         changed |-> hit # {}]

\* forcedAt without the test of line 98: a later force takes the entry over
forcedAtOverwriting(s, val, force) ==
    [st |-> [s EXCEPT !.forcedBy = Put(@, val, force)], changed |-> TRUE]

\* bool forcedAt(Value* val, Force* force)
forcedAt(s, val, force) ==
    IF ~Count(s, val)
    THEN [st |-> [s EXCEPT !.forcedBy = Put(@, val, force)], changed |-> TRUE]
    ELSE [st |-> s, changed |-> FALSE]

\* bool escape(Value* val)
escape(s, val) ==
    IF ~Count(s, val) /\ val \notin s.escaped
    THEN [st |-> [s EXCEPT !.escaped = @ \cup {val}], changed |-> TRUE]
    ELSE [st |-> s, changed |-> FALSE]

Prefix(q, n) == SubSeq(q, 1, n)

\* the first index at which two sequences differ among their first n entries,
\* n + 1 when they agree there
FirstDiff(p, q, n) ==
    IF \E i \in 1..n : p[i] # q[i]
    THEN CHOOSE i \in 1..n : p[i] # q[i] /\ \A j \in 1..(i - 1) : p[j] = q[j]
    ELSE n + 1

\* mergeExit with one of its steps altered:
\*   "overwrite"     : an entry that disagrees takes the other side's entry
\*                     (lines 122-124)
\*   "adoptInScope"  : an entry only the other side has becomes ambiguous
\*                     when the value is in scope here (lines 131-133)
\*   "reportEscaped" : line 142 is not tested, every escaped value of the
\*                     other side is reported as new
\*   "keepOrder"     : the loop of lines 168-175 is left out
mergeExitVariant(s, other, how) ==
    LET differ == {v \in DOMAIN s.forcedBy :
                      v \in DOMAIN other.forcedBy
                      /\ s.forcedBy[v] # other.forcedBy[v]}
        lost == {v \in differ : s.forcedBy[v] # ambiguous}
        adopt == (DOMAIN other.forcedBy) \ (DOMAIN s.forcedBy)
        fb == [v \in (DOMAIN s.forcedBy) \cup adopt |->
                  IF v \in adopt
                  THEN IF how = "adoptInScope" /\ v \in s.inScope
                       THEN ambiguous ELSE other.forcedBy[v]
                  ELSE IF v \in differ
                  THEN IF how = "overwrite" THEN other.forcedBy[v]
                       ELSE ambiguous
                  ELSE s.forcedBy[v]]
        scope == s.inScope \cup adopt
        newEsc == IF how = "reportEscaped" THEN other.escaped
                  ELSE other.escaped \ s.escaped
        amb1 == s.ambiguousForceOrder \/ other.ambiguousForceOrder
        my == s.argumentForceOrder
        ot == other.argumentForceOrder
        mySize == Len(my)
        otherSize == Len(ot)
        common == IF mySize > otherSize THEN otherSize ELSE mySize
        cut1 == IF mySize > otherSize THEN Prefix(my, otherSize) ELSE my
        amb2 == amb1 \/ (my # ot /\ mySize # otherSize)
        upd2 == my # ot /\ (mySize > otherSize
                            \/ (~amb1 /\ otherSize > mySize))
        d == IF how = "keepOrder" THEN common + 1
             ELSE FirstDiff(cut1, ot, common)
        cut2 == IF my # ot /\ d <= common THEN Prefix(cut1, d - 1) ELSE cut1
        amb3 == amb2 \/ (my # ot /\ d <= common)
        upd3 == my # ot /\ d <= common
        updated == adopt # {} \/ newEsc # {}
                   \/ (~s.ambiguousForceOrder /\ other.ambiguousForceOrder)
                   \/ upd2 \/ upd3
    IN  [st |-> [forcedBy |-> fb, inScope |-> scope,
                 escaped |-> s.escaped \cup other.escaped,
                 argumentForceOrder |-> cut2,
                 ambiguousForceOrder |-> amb3],
         res |-> IF lost # {} THEN ResLostPrecision
                 ELSE IF updated THEN ResUpdated ELSE ResNone]

mergeExitOverwriting(s, other) == mergeExitVariant(s, other, "overwrite")

mergeExitAdoptingInScope(s, other) == mergeExitVariant(s, other, "adoptInScope")

mergeExitReportingEscaped(s, other) == mergeExitVariant(s, other, "reportEscaped")

mergeExitKeepingOrder(s, other) == mergeExitVariant(s, other, "keepOrder")

\* AbstractResult mergeExit(const ForcedBy& other)
mergeExit(s, other) ==
    LET \* first loop: entries of both sides that disagree become ambiguous
        differ == {v \in DOMAIN s.forcedBy :
                      v \in DOMAIN other.forcedBy
                      /\ s.forcedBy[v] # other.forcedBy[v]}
        lost == {v \in differ : s.forcedBy[v] # ambiguous}
        \* second loop: entries only the other side has are adopted
        adopt == (DOMAIN other.forcedBy) \ (DOMAIN s.forcedBy)
        fb == [v \in (DOMAIN s.forcedBy) \cup adopt |->
                  IF v \in adopt THEN other.forcedBy[v]
                  ELSE IF v \in differ THEN ambiguous
                  ELSE s.forcedBy[v]]
        scope == s.inScope \cup adopt
        \* third loop: escaped sets are united
        newEsc == other.escaped \ s.escaped
        amb1 == s.ambiguousForceOrder \/ other.ambiguousForceOrder
        my == s.argumentForceOrder
        ot == other.argumentForceOrder
        mySize == Len(my)
        otherSize == Len(ot)
        common == IF mySize > otherSize THEN otherSize ELSE mySize
        cut1 == IF mySize > otherSize THEN Prefix(my, otherSize) ELSE my
        amb2 == amb1 \/ (my # ot /\ mySize # otherSize)
        upd2 == my # ot /\ (mySize > otherSize
                            \/ (~amb1 /\ otherSize > mySize))
        d == FirstDiff(cut1, ot, common)
        cut2 == IF my # ot /\ d <= common THEN Prefix(cut1, d - 1) ELSE cut1
        amb3 == amb2 \/ (my # ot /\ d <= common)
        upd3 == my # ot /\ d <= common
        updated == adopt # {} \/ newEsc # {}
                   \/ (~s.ambiguousForceOrder /\ other.ambiguousForceOrder)
                   \/ upd2 \/ upd3
    IN  [st |-> [forcedBy |-> fb, inScope |-> scope,
                 escaped |-> s.escaped \cup other.escaped,
                 argumentForceOrder |-> cut2,
                 ambiguousForceOrder |-> amb3],
         res |-> IF lost # {} THEN ResLostPrecision
                 ELSE IF updated THEN ResUpdated ELSE ResNone]

\* merge without its own two loops (lines 183-207): a join is merged the way
\* the exits are
mergeLikeExit(s, other) == mergeExit(s, other)

\* merge without the loop of lines 198-205: only the receiver's entries are
\* degraded
mergeOneWay(s, other) ==
    LET mine == {v \in DOMAIN s.forcedBy :
                    v \notin DOMAIN other.forcedBy /\ v \in other.inScope}
        lost1 == {v \in mine : s.forcedBy[v] # ambiguous}
        fb == [v \in DOMAIN s.forcedBy |->
                  IF v \in mine THEN ambiguous ELSE s.forcedBy[v]]
        r == mergeExit([s EXCEPT !.forcedBy = fb], other)
        res1 == IF lost1 # {} THEN ResLostPrecision ELSE ResNone
    IN  [st |-> r.st, res |-> ResMax(res1, r.res)]

\* merge without the test of line 189: an entry of the receiver is degraded
\* whenever the value is in scope in the other state
mergeDegradingAll(s, other) ==
    LET mine == {v \in DOMAIN s.forcedBy : v \in other.inScope}
        lost1 == {v \in mine : s.forcedBy[v] # ambiguous}
        theirs == {v \in DOMAIN other.forcedBy :
                      v \notin DOMAIN s.forcedBy /\ v \in s.inScope}
        fb == [v \in (DOMAIN s.forcedBy) \cup theirs |->
                  IF v \in mine \/ v \in theirs THEN ambiguous
                  ELSE s.forcedBy[v]]
        r == mergeExit([s EXCEPT !.forcedBy = fb], other)
        res1 == IF lost1 # {} \/ theirs # {} THEN ResLostPrecision ELSE ResNone
    IN  [st |-> r.st, res |-> ResMax(res1, r.res)]

\* AbstractResult merge(const ForcedBy& other)
merge(s, other) ==
    LET \* forced here, in scope but unforced there
        mine == {v \in DOMAIN s.forcedBy :
                    v \notin DOMAIN other.forcedBy /\ v \in other.inScope}
        lost1 == {v \in mine : s.forcedBy[v] # ambiguous}
        \* forced there, in scope but unforced here
        theirs == {v \in DOMAIN other.forcedBy :
                      v \notin DOMAIN s.forcedBy /\ v \in s.inScope}
        fb == [v \in (DOMAIN s.forcedBy) \cup theirs |->
                  IF v \in mine \/ v \in theirs THEN ambiguous
                  ELSE s.forcedBy[v]]
        r == mergeExit([s EXCEPT !.forcedBy = fb], other)
        res1 == IF lost1 # {} \/ theirs # {} THEN ResLostPrecision ELSE ResNone
    IN  [st |-> r.st, res |-> ResMax(res1, r.res)]

\* maybeForced asking whether any argument is recorded, not whether i is
maybeForcedAnyArgument(s, i) ==
    s.argumentForceOrder # <<>> \/ s.ambiguousForceOrder

\* maybeForced without the loop of lines 215-218: recorded arguments are not
\* looked up
maybeForcedIfAmbiguous(s, i) == s.ambiguousForceOrder

\* bool maybeForced(size_t i) const
maybeForced(s, i) ==
    (\E k \in 1..Len(s.argumentForceOrder) : s.argumentForceOrder[k] = i)
    \/ s.ambiguousForceOrder

\* eagerLikeFunction without the test of ambiguousForceOrder (line 223)
eagerLikeFunctionIgnoringAmbiguity(s, n) ==
    IF Len(s.argumentForceOrder) < n
    THEN FALSE
    ELSE \A i \in 0..(n - 1) : s.argumentForceOrder[i + 1] = i

\* bool eagerLikeFunction(ClosureVersion* fun) const; n is fun->effectiveNArgs()
eagerLikeFunction(s, n) ==
    IF s.ambiguousForceOrder \/ Len(s.argumentForceOrder) < n
    THEN FALSE
    ELSE \A i \in 0..(n - 1) : s.argumentForceOrder[i + 1] = i

(***************************************************************************)
(* Instructions.  An instruction is a record                               *)
(*   kind  : "LdArg" | "MkArg" | "Force" | "CastType" | "MkEnv" | "Deopt"  *)
(*           | "UpdatePromise" | "LdFunctionEnv" | "Other"                 *)
(*   args  : the value operands (for MkArg: <<eagerArg>>, null = lazy)     *)
(*   n     : LdArg: the argument index; MkArg: the promise                 *)
(*   lazy  : type.maybeLazy()                                              *)
(*   force : effects contains Effect::Force                                *)
(*   stub  : MkEnv::stub                                                   *)
(* ins maps instruction ids to instructions.                               *)
(***************************************************************************)
Instr(kind, args, n, lazy, force, stub) ==
    [kind |-> kind, args |-> args, n |-> n, lazy |-> lazy, force |-> force,
     stub |-> stub]

LdArg(i, lazy) == Instr("LdArg", <<>>, i, lazy, FALSE, FALSE)
LdConst == Instr("Other", <<>>, 0, FALSE, FALSE, FALSE)
MkArg(prom, eagerArg) == Instr("MkArg", <<eagerArg>>, prom, TRUE, FALSE, FALSE)
Force(v) == Instr("Force", <<v>>, 0, FALSE, FALSE, FALSE)
CastType(v) == Instr("CastType", <<v>>, 0, FALSE, FALSE, FALSE)
MkEnv(args, stub) == Instr("MkEnv", args, 0, FALSE, FALSE, stub)
Deopt == Instr("Deopt", <<>>, 0, FALSE, FALSE, FALSE)
UpdatePromise(mk, v) == Instr("UpdatePromise", <<mk, v>>, 0, FALSE, FALSE, FALSE)
LdFunctionEnv == Instr("LdFunctionEnv", <<>>, 0, FALSE, FALSE, FALSE)
Other(args, lazy, force) == Instr("Other", args, 0, lazy, force, FALSE)

IsKind(ins, v, kind) == v \in DOMAIN ins /\ ins[v].kind = kind

\* MkArg::isEager(): the eager argument is not the unbound value
isEager(ins, mk) == ins[mk].args[1] # null

eagerArg(ins, mk) == ins[mk].args[1]

RECURSIVE followCasts(_, _)
\* Value::followCasts(): the value with its type casts stripped
followCasts(ins, v) ==
    IF IsKind(ins, v, "CastType") THEN followCasts(ins, ins[v].args[1]) ELSE v

RECURSIVE followCastsAndForce(_, _)
\* Value::followCastsAndForce(): the value behind casts and forces
followCastsAndForce(ins, v) ==
    IF IsKind(ins, v, "CastType") \/ IsKind(ins, v, "Force")
    THEN followCastsAndForce(ins, ins[v].args[1])
    ELSE v

\* Effects::contains(Effect::Force) and Effects::includes(Effect::Force)
EffectsContainsForce(ins, i) == ins[i].force

EffectsIncludesForce(ins, i) == ins[i].force

(***************************************************************************)
(* ForceDominanceAnalysis::apply, the transfer function.                   *)
(***************************************************************************)
\* the operands of i that the lambda `apply` hands to state.escape
EscapingArgs(ins, i) ==
    {v \in {followCasts(ins, ins[i].args[k]) : k \in 1..Len(ins[i].args)} :
        IsKind(ins, v, "MkArg") \/ IsKind(ins, v, "LdArg")
        \/ (v \in DOMAIN ins /\ ins[v].lazy)}

\* the lambda `apply` of ForceDominanceAnalysis::apply: escape every operand
ApplyEscapes(ins, s, i) ==
    LET new == {v \in EscapingArgs(ins, i) : escape(s, v).changed}
    IN  [st |-> [s EXCEPT !.escaped = @ \cup new],
         res |-> IF new # {} THEN ResUpdated ELSE ResNone]

\* the Force case (lines 318-337)
TransferForce(ins, s, f) ==
    LET a == followCasts(ins, ins[f].args[1])
    IN  IF IsKind(ins, a, "LdArg")
        THEN IF ins[a].lazy
             THEN LET r == forcedAt(s, a, f)
                      push == ~r.st.ambiguousForceOrder
                              /\ ~maybeForced(r.st, ins[a].n)
                  IN  [st |-> IF push
                              THEN [r.st EXCEPT !.argumentForceOrder =
                                                    Append(@, ins[a].n)]
                              ELSE r.st,
                       res |-> IF r.changed \/ push THEN ResUpdated
                               ELSE ResNone]
             ELSE [st |-> s, res |-> ResNone]
        ELSE IF IsKind(ins, a, "MkArg") \/ (a \in DOMAIN ins /\ ins[a].lazy)
             THEN LET r == forcedAt(s, a, f)
                  IN  [st |-> r.st,
                       res |-> IF r.changed THEN ResUpdated ELSE ResNone]
             ELSE [st |-> s, res |-> ResNone]

\* the last case without lines 357-365: the force order is never given up
TransferOtherKeepingOrder(ins, nargs, s, i) ==
    LET d == IF ins[i].lazy THEN declare(s, i)
             ELSE [st |-> s, changed |-> FALSE]
        e == ApplyEscapes(ins, d.st, i)
        se == IF EffectsContainsForce(ins, i) THEN sideeffect(e.st)
              ELSE [st |-> e.st, changed |-> FALSE]
    IN  [st |-> se.st,
         res |-> IF se.changed THEN ResTainted
                 ELSE IF d.changed \/ e.res = ResUpdated THEN ResUpdated
                 ELSE ResNone]

\* the last case (lines 345-366): any other instruction
TransferOther(ins, nargs, s, i) ==
    LET d == IF ins[i].lazy THEN declare(s, i)
             ELSE [st |-> s, changed |-> FALSE]
        e == ApplyEscapes(ins, d.st, i)
        se == IF EffectsContainsForce(ins, i) THEN sideeffect(e.st)
              ELSE [st |-> e.st, changed |-> FALSE]
        giveUp == EffectsIncludesForce(ins, i)
                  /\ ~se.st.ambiguousForceOrder
                  /\ Len(se.st.argumentForceOrder) < nargs
    IN  [st |-> IF giveUp THEN [se.st EXCEPT !.ambiguousForceOrder = TRUE]
                ELSE se.st,
         res |-> IF se.changed \/ giveUp THEN ResTainted
                 ELSE IF d.changed \/ e.res = ResUpdated THEN ResUpdated
                 ELSE ResNone]

\* AbstractResult apply(ForcedBy& state, Instruction* i) const
Transfer(ins, nargs, s, i) ==
    IF ins[i].kind = "Force" THEN TransferForce(ins, s, i)
    ELSE IF ins[i].kind = "MkArg"
    THEN LET d == declare(s, i)
         IN  [st |-> d.st, res |-> IF d.changed THEN ResUpdated ELSE ResNone]
    ELSE IF ins[i].kind = "MkEnv"
    THEN IF ~ins[i].stub THEN ApplyEscapes(ins, s, i)
         ELSE [st |-> s, res |-> ResNone]
    ELSE IF ins[i].kind \in {"CastType", "Deopt"}
    THEN [st |-> s, res |-> ResNone]
    ELSE TransferOther(ins, nargs, s, i)

RECURSIVE RunSeq(_, _, _, _)
\* the state after the instructions q, run in order from state s
RunSeq(ins, nargs, s, q) ==
    IF q = <<>> THEN s
    ELSE RunSeq(ins, nargs, Transfer(ins, nargs, s, Head(q)).st, Tail(q))

(***************************************************************************)
(* The closure version under optimization: code is a record                *)
(*   ins  : instruction id -> instruction                                  *)
(*   bbs  : basic block id -> the sequence of instruction ids it holds     *)
(*   succ : basic block id -> the set of its successor blocks              *)
(* Block 1 is the entry.  A block without successors is an exit.           *)
(***************************************************************************)
Range(q) == {q[k] : k \in 1..Len(q)}

Min(S) == CHOOSE x \in S : \A y \in S : x <= y

Blocks(c) == 1..Len(c.bbs)

BlockOf(c, i) == CHOOSE b \in Blocks(c) : i \in Range(c.bbs[b])

PosOf(c, i) ==
    LET q == c.bbs[BlockOf(c, i)] IN CHOOSE k \in 1..Len(q) : q[k] = i

InCode(c, i) == \E b \in Blocks(c) : i \in Range(c.bbs[b])

\* BB::isDeopt(): the block ends in a Deopt instruction
IsDeoptBlock(c, b) ==
    c.bbs[b] # <<>> /\ c.ins[c.bbs[b][Len(c.bbs[b])]].kind = "Deopt"

(***************************************************************************)
(* StaticAnalysis<ForcedBy>: the fixed-point engine.  an is a record       *)
(*   entry   : block -> the state at its entry                             *)
(*   seen    : the blocks that have an entry state                         *)
(*   changed : the blocks whose entry state changed since their last visit *)
(*   exit    : the exit state, mergeExit of the states at the exits        *)
(***************************************************************************)
InitAnalysis(c) ==
    [entry |-> [b \in Blocks(c) |-> EmptyState], seen |-> {1}, changed |-> {1},
     exit |-> EmptyState, exitSeen |-> FALSE]

\* the state at the end of block b flows into the entry of its successor t
MergeInto(an, t, out) ==
    IF t \notin an.seen
    THEN [an EXCEPT !.entry[t] = out, !.seen = @ \cup {t},
                    !.changed = @ \cup {t}]
    ELSE LET m == merge(an.entry[t], out)
         IN  IF m.res > ResNone
             THEN [an EXCEPT !.entry[t] = m.st, !.changed = @ \cup {t}]
             ELSE an

RECURSIVE MergeAll(_, _, _)
MergeAll(an, targets, out) ==
    IF targets = {} THEN an
    ELSE LET t == Min(targets)
         IN  MergeAll(MergeInto(an, t, out), targets \ {t}, out)

\* one visit of block b: run the transfer function over it, merge the result
\* into the exit state (at an exit) and into the successors' entry states
VisitBlock(c, nargs, an, b) ==
    LET out == RunSeq(c.ins, nargs, an.entry[b], c.bbs[b])
        a1 == [an EXCEPT !.changed = @ \ {b}]
        a2 == IF c.succ[b] = {}
              THEN [a1 EXCEPT !.exit = IF a1.exitSeen THEN mergeExit(@, out).st
                                       ELSE out,
                              !.exitSeen = TRUE]
              ELSE a1
    IN  MergeAll(a2, c.succ[b], out)

\* the next block of the sweep after block cur, or the first of a new sweep
NextBlock(an, cur) ==
    IF \E b \in an.changed : b > cur
    THEN Min({b \in an.changed : b > cur})
    ELSE Min(an.changed)

RECURSIVE FixFrom(_, _, _, _)
\* StaticAnalysis::operator(): iterate until no entry state changes
FixFrom(c, nargs, an, cur) ==
    IF an.changed = {} THEN an
    ELSE LET b == NextBlock(an, cur)
         IN  FixFrom(c, nargs, VisitBlock(c, nargs, an, b), b)

Analysis(c, nargs) == FixFrom(c, nargs, InitAnalysis(c), 0)

\* StaticAnalysis::before(i) / after(i): the converged state at a program point
StateAt(c, nargs, an, i, k) ==
    LET b == BlockOf(c, i)
    IN  RunSeq(c.ins, nargs, an.entry[b], SubSeq(c.bbs[b], 1, k))

before(c, nargs, an, i) == StateAt(c, nargs, an, i, PosOf(c, i) - 1)

after(c, nargs, an, i) == StateAt(c, nargs, an, i, PosOf(c, i))

\* StaticAnalysis::resultIgnoringUnreachableExits(i, cfg)
resultIgnoringUnreachableExits(c, nargs, an, i) == after(c, nargs, an, i)

\* Force* getDominatingForce(Force* f) const
getDominatingForce(ins, s, f) ==
    LET a == followCasts(ins, ins[f].args[1])
    IN  IF ~Count(s, a) THEN null
        ELSE IF s.forcedBy[a] = ambiguous THEN null
        ELSE s.forcedBy[a]

\* bool isDominatingForce(Force* f) const
isDominatingForce(ins, s, f) == f = getDominatingForce(ins, s, f)

(***************************************************************************)
(* The closures the pass is run on.  Every closure starts with the         *)
(* prologue x = LdArg(0); y = LdArg(1); k = constant; a = MkArg(P, ...)    *)
(* in its entry block, followed by up to MaxBody further instructions      *)
(* spread over the blocks of one of the CFG shapes.                        *)
(***************************************************************************)
MaxBody == 2

P == [x |-> 1, y |-> 2, k |-> 3, a |-> 4]

Prologue(eager) ==
    <<LdArg(0, TRUE), LdArg(1, TRUE), LdConst,
      MkArg(1, IF eager THEN P.k ELSE null)>>

Shapes ==
    [Linear |-> <<{}>>,
     Diamond |-> <<{2, 3}, {4}, {4}, {}>>,
     Loop |-> <<{2}, {2, 3}, {}>>,
     DeoptBranch |-> <<{2, 3}, {}, {}>>]

\* the instructions that may stand at a place where the values in vals
\* (earlier forces and casts) are available besides the prologue
Templates(vals) ==
    {Force(v) : v \in {P.x, P.y, P.a} \cup vals}
    \cup {CastType(P.a), Other(<<>>, FALSE, TRUE), UpdatePromise(P.a, P.k),
          MkEnv(<<P.a>>, TRUE), MkEnv(<<P.a>>, FALSE)}

\* b1 dominates b2 in the CFG succ: b2 is not reachable from the entry once
\* b1 is taken out
RECURSIVE ReachAvoiding(_, _, _)
ReachAvoiding(succ, avoid, reached) ==
    LET more == (UNION {succ[b] : b \in reached}) \ (reached \cup {avoid})
    IN  IF more = {} THEN reached
        ELSE ReachAvoiding(succ, avoid, reached \cup more)

Dominates(succ, b1, b2) ==
    b1 = b2 \/ b1 = 1 \/ b2 \notin ReachAvoiding(succ, b1, {1})

RECURSIVE Bodies(_, _)
\* the bodies of at most n instructions over the blocks of succ: sequences of
\* [i |-> instruction, b |-> block], blocks in non-decreasing order, every
\* operand defined at a place that dominates its use
Bodies(succ, n) ==
    IF n = 0 THEN {<<>>}
    ELSE LET shorter == Bodies(succ, n - 1)
             full == {q \in shorter : Len(q) = n - 1}
             base == Len(Prologue(FALSE))
         IN  shorter \cup
             UNION {
               UNION {
                 {Append(q, [i |-> t, b |-> b]) :
                    t \in Templates({base + j : j \in
                            {j \in 1..Len(q) :
                                q[j].i.kind \in {"Force", "CastType"}
                                /\ Dominates(succ, q[j].b, b)}})}
                 : b \in {b \in 1..Len(succ) :
                             q = <<>> \/ q[Len(q)].b <= b}}
               : q \in full}

\* the code of the closure with the given prologue, shape and body
MkCode(eager, shape, body) ==
    LET succ == Shapes[shape]
        pro == Prologue(eager)
        base == Len(pro)
        n == Len(body)
        deoptId == base + n + 1
        ins0 == [i \in 1..(base + n) |->
                    IF i <= base THEN pro[i] ELSE body[i - base].i]
        ins == IF shape = "DeoptBranch"
               THEN [i \in 1..deoptId |-> IF i = deoptId THEN Deopt ELSE ins0[i]]
               ELSE ins0
        ids(b) == [j \in 1..n |-> base + j]
        RECURSIVE Pick(_, _)
        Pick(b, j) ==
            IF j > n THEN <<>>
            ELSE IF body[j].b = b THEN <<base + j>> \o Pick(b, j + 1)
            ELSE Pick(b, j + 1)
        blk(b) == (IF b = 1 THEN [i \in 1..base |-> i] ELSE <<>>)
                  \o Pick(b, 1)
                  \o (IF shape = "DeoptBranch" /\ b = 2 THEN <<deoptId>>
                      ELSE <<>>)
    IN  [ins |-> ins, bbs |-> [b \in 1..Len(succ) |-> blk(b)], succ |-> succ]

(***************************************************************************)
(* ForceDominance::apply, phase A (lines 382-431): run the analysis, set   *)
(* the closure's properties and classify the forces.                       *)
(***************************************************************************)
PROMISE_INLINER_MAX_SIZE == 3000

SmallPromise == 10

\* the environment variable PIR_PROMISE_INLINER_MAX_SIZE: not set, or set to
\* a string, a sequence of characters
Unset == [set |-> FALSE, value |-> <<>>]

DigitChars == <<"0", "1", "2", "3", "4", "5", "6", "7", "8", "9">>

IsDigit(ch) == \E d \in DOMAIN DigitChars : DigitChars[d] = ch

DigitValue(ch) == (CHOOSE d \in DOMAIN DigitChars : DigitChars[d] = ch) - 1

RECURSIVE SkipSpaces(_)
SkipSpaces(s) ==
    IF s # <<>> /\ Head(s) = " " THEN SkipSpaces(Tail(s)) ELSE s

RECURSIVE LeadingDigits(_, _)
\* the number written by the digits s starts with, after the digits of acc
LeadingDigits(s, acc) ==
    IF s # <<>> /\ IsDigit(Head(s))
    THEN LeadingDigits(Tail(s), acc * 10 + DigitValue(Head(s)))
    ELSE acc

\* int atoi(const char*): white space, an optional sign, then digits up to
\* the first character that is not one; 0 when there is no digit
atoi(s) ==
    LET t == SkipSpaces(s)
    IN  IF t # <<>> /\ Head(t) = "-" THEN 0 - LeadingDigits(Tail(t), 0)
        ELSE IF t # <<>> /\ Head(t) = "+" THEN LeadingDigits(Tail(t), 0)
        ELSE LeadingDigits(t, 0)

\* lines 544-547: the int that initialises Parameter::PROMISE_INLINER_MAX_SIZE
\* under the environment e
MaxSizeFrom(e) ==
    IF e.set THEN atoi(e.value) ELSE PROMISE_INLINER_MAX_SIZE

\* line 382 with the > at the limit included
ExceedsOrEquals(csize, max) ==
    IF max < 0 THEN FALSE ELSE csize >= max

\* line 382: code->size() > Parameter::PROMISE_INLINER_MAX_SIZE, a comparison
\* of size_t values, max being the int that initialised the parameter.  The
\* conversion of a negative int n to size_t is 2^64 + n, which is above
\* every size below 2^64 - 2^31, so above every size of a closure
Exceeds(csize, max) ==
    IF max < 0 THEN FALSE ELSE csize > max

\* line 382 and line 405: is a promise of size psize small enough to be
\* inlined into a closure of size csize when the parameter was initialised
\* with max
SizeAllowsInline(max, csize, psize) ==
    LET isHuge == Exceeds(csize, max)
    IN  ~isHuge \/ psize < SmallPromise

\* isSafeToInline without the tests of lines 258-265
isSafeToInlineIgnoringDeopt(s, a, deopt) ==
    IF a \in s.escaped THEN "SafeToInlineWithUpdate" ELSE "SafeToInline"

\* isSafeToInline without the test of line 267
isSafeToInlineNeverUpdating(s, a, deopt) ==
    IF deopt THEN "NotSafeToInline" ELSE "SafeToInline"

\* PromiseInlineable isSafeToInline(MkArg* a) const, called on a state whose
\* hasDeopt cache is empty; deopt is the answer !Query::noDeopt(a->prom())
isSafeToInline(s, a, deopt) ==
    IF deopt THEN "NotSafeToInline"
    ELSE IF a \in s.escaped THEN "SafeToInlineWithUpdate"
    ELSE "SafeToInline"

RECURSIVE ReachNoDeopt(_, _)
\* VisitorNoDeoptBranch::run: the blocks reached from the entry without
\* entering a deopt block
ReachNoDeopt(c, reached) ==
    LET more == {t \in UNION {c.succ[b] : b \in reached} :
                    t \notin reached /\ ~IsDeoptBlock(c, t)}
    IN  IF more = {} THEN reached ELSE ReachNoDeopt(c, reached \cup more)

VisitedNoDeopt(c) ==
    {i \in DOMAIN c.ins : \E b \in ReachNoDeopt(c, {1}) : i \in Range(c.bbs[b])}

\* lines 398-402: the forces that are their own dominator
DominatingForces(c, n, a) ==
    {f \in VisitedNoDeopt(c) :
        c.ins[f].kind = "Force"
        /\ isDominatingForce(c.ins,
                resultIgnoringUnreachableExits(c, n, a, f), f)}

\* lines 403-407 outside the test of line 401: asked for every visited force
InlineCandidatesAmongAll(c, doms, sz) ==
    {f \in VisitedNoDeopt(c) :
        LET mk == followCastsAndForce(c.ins, f)
        IN  /\ c.ins[f].kind = "Force"
            /\ IsKind(c.ins, mk, "MkArg")
            /\ ~isEager(c.ins, mk)
            /\ SizeAllowsInline(sz.max, sz.closure, sz.prom)}

\* lines 403-407: the dominating forces for which isSafeToInline is asked
InlineCandidates(c, doms, sz) ==
    {f \in doms :
        LET mk == followCastsAndForce(c.ins, f)
        IN  /\ IsKind(c.ins, mk, "MkArg")
            /\ ~isEager(c.ins, mk)
            /\ SizeAllowsInline(sz.max, sz.closure, sz.prom)}

InlineAnswer(c, n, a, oracle, f) ==
    LET mk == followCastsAndForce(c.ins, f)
    IN  isSafeToInline(after(c, n, a, f), mk, oracle[c.ins[mk].n])

\* lines 417-420 without the else of line 417 and the test of line 418:
\* every visited force with a known dominator is recorded
DominatedForcesWithSelf(c, n, a, doms) ==
    {f \in VisitedNoDeopt(c) :
        c.ins[f].kind = "Force"
        /\ getDominatingForce(c.ins,
               resultIgnoringUnreachableExits(c, n, a, f), f) # null}

\* lines 417-420: the forces that have another force as their dominator
DominatedForces(c, n, a, doms) ==
    {f \in VisitedNoDeopt(c) \ doms :
        c.ins[f].kind = "Force"
        /\ LET dom == getDominatingForce(c.ins,
                         resultIgnoringUnreachableExits(c, n, a, f), f)
           IN  dom # null /\ f # dom}

\* lines 421-426 asking for the state after the UpdatePromise, not before it
DeadUpdatesAfter(c, n, a) ==
    {u \in VisitedNoDeopt(c) :
        /\ c.ins[u].kind = "UpdatePromise"
        /\ IsKind(c.ins, c.ins[u].args[1], "MkArg")
        /\ c.ins[u].args[1] \notin after(c, n, a, u).escaped}

\* lines 421-426: the UpdatePromise instructions of an unescaped MkArg
DeadUpdates(c, n, a) ==
    {u \in VisitedNoDeopt(c) :
        /\ c.ins[u].kind = "UpdatePromise"
        /\ IsKind(c.ins, c.ins[u].args[1], "MkArg")
        /\ c.ins[u].args[1] \notin before(c, n, a, u).escaped}

\* BB::remove for every instruction of the set gone
RemoveAll(c, gone) ==
    [c EXCEPT !.bbs = [b \in DOMAIN @ |-> SelectSeq(@[b], LAMBDA i : i \notin gone)]]

Promises(c) == {c.ins[i].n : i \in {i \in DOMAIN c.ins : c.ins[i].kind = "MkArg"}}

(***************************************************************************)
(* The CFG edit primitives used by phases B and C.  ps is a record         *)
(*   code, inlinedPromise, forcedMkArg : as in ForceDominance::apply       *)
(*   uses : value -> the value its former uses refer to now                *)
(***************************************************************************)
\* Instruction::replaceUsesWith: every operand old becomes new
replaceUsesWith(ps, old, new) ==
    [ps EXCEPT
        !.code.ins = [i \in DOMAIN @ |->
                        [@[i] EXCEPT !.args =
                            [k \in DOMAIN @ |-> IF @[k] = old THEN new
                                                ELSE @[k]]]],
        !.uses = [v \in (DOMAIN @) \cup {old} |->
                     IF v = old THEN new
                     ELSE IF @[v] = old THEN new ELSE @[v]]]

\* BB::remove(ip): take the k-th instruction out of block b
RemoveAt(ps, b, k) ==
    [ps EXCEPT !.code.bbs[b] = SubSeq(@, 1, k - 1) \o SubSeq(@, k + 1, Len(@))]

\* the body of a promise: its LdFunctionEnv, a variable read from that
\* environment and the force of what was read, which is the value the promise
\* returns; operands are positions within the body
PromBody == <<LdFunctionEnv, Other(<<1>>, TRUE, FALSE), Force(2)>>

\* BBTransform::clone: the promise body copied to the ids base+1, base+2, ...
CloneBody(base) ==
    [k \in 1..Len(PromBody) |->
        [PromBody[k] EXCEPT !.args = [j \in DOMAIN @ |-> base + @[j]]]]

NextId(c) == Cardinality(DOMAIN c.ins) + 1

\* the MkArg of lines 489-490 built without its eager value
fixedMkArgLazy(ins, mkarg, promRes) == MkArg(ins[mkarg].n, null)

\* lines 489-490: new MkArg(mkarg->prom(), promRes, mkarg->promEnv())
fixedMkArg(ins, mkarg, promRes) == MkArg(ins[mkarg].n, promRes)

\* lines 448-499: inline the promise of mkarg at the force at place k of block b
InlineAt(ps, b, k, mkarg, update) ==
    LET c == ps.code
        f == c.bbs[b][k]
        \* BBTransform::split and BBTransform::clone; bb->overrideNext
        split == Len(c.bbs) + 1
        copy == Len(c.bbs) + 2
        base == NextId(c) - 1
        body == CloneBody(base)
        e == base + 1
        promRes == base + Len(body)
        fixed == promRes + 1
        upd == promRes + 2
        added == body \o <<fixedMkArg(c.ins, mkarg, promRes)>>
                 \o (IF update THEN <<UpdatePromise(mkarg, promRes)>>
                     ELSE <<>>)
        ins1 == [i \in 1..(base + Len(added)) |->
                    IF i <= base THEN c.ins[i] ELSE added[i - base]]
        \* Replace::usesOfValue(prom_copy, e, mkarg->promEnv()): the promise
        \* environment is not a value of the model
        ins2 == [i \in DOMAIN ins1 |->
                    IF i > base /\ i <= promRes
                    THEN [ins1[i] EXCEPT !.args =
                            [j \in DOMAIN @ |-> IF @[j] = e THEN null
                                                ELSE @[j]]]
                    ELSE ins1[i]]
        \* prom_copy->remove(prom_copy->begin())
        copyBlock == [j \in 1..(Len(body) - 1) |-> base + 1 + j]
        rest == SubSeq(c.bbs[b], k + 1, Len(c.bbs[b]))
        splitBlock == <<fixed>> \o (IF update THEN <<upd>> ELSE <<>>)
                      \o rest
        bbs1 == [x \in 1..copy |->
                    IF x = b THEN SubSeq(c.bbs[b], 1, k - 1)
                    ELSE IF x = split THEN splitBlock
                    ELSE IF x = copy THEN copyBlock
                    ELSE c.bbs[x]]
        succ1 == [x \in 1..copy |->
                    IF x = b THEN {copy}
                    ELSE IF x = split THEN c.succ[b]
                    ELSE IF x = copy THEN {split}
                    ELSE c.succ[x]]
        ps1 == [ps EXCEPT !.code = [ins |-> ins2, bbs |-> bbs1, succ |-> succ1]]
        \* f->replaceUsesWith(promRes)
        ps2 == replaceUsesWith(ps1, f, promRes)
    IN  [ps2 EXCEPT !.forcedMkArg = Put(@, mkarg, fixed),
                    !.inlinedPromise = Put(@, f, promRes)]

RECURSIVE InlineFromUnqueued(_, _, _, _, _)
\* the lambda of lines 437-513 without the test of line 447: the promise of
\* every forced lazy MkArg is inlined
InlineFromUnqueued(ps, inl, upd, b, k) ==
    LET c == ps.code
        i == c.bbs[b][k]
        mkarg == followCastsAndForce(c.ins, i)
        cmk == c.ins[i].args[1]
    IN  IF k > Len(c.bbs[b]) THEN ps
        ELSE IF c.ins[i].kind = "Force" /\ IsKind(c.ins, mkarg, "MkArg")
        THEN IF isEager(c.ins, mkarg)
             THEN InlineFromUnqueued(
                    RemoveAt(replaceUsesWith(ps, i, eagerArg(c.ins, mkarg)),
                             b, k),
                    inl, upd, b, k)
             ELSE InlineAt(ps, b, k, mkarg, i \in upd)
        ELSE IF c.ins[i].kind = "CastType" /\ IsKind(c.ins, cmk, "MkArg")
                /\ isEager(c.ins, cmk)
        THEN InlineFromUnqueued(
               RemoveAt(replaceUsesWith(ps, i, eagerArg(c.ins, cmk)), b, k),
               inl, upd, b, k)
        ELSE InlineFromUnqueued(ps, inl, upd, b, k + 1)

RECURSIVE InlineFromKeepingEagerForces(_, _, _, _, _)
\* the lambda of lines 437-513 without the branch of lines 443-446: a force
\* of an eager MkArg is left alone
InlineFromKeepingEagerForces(ps, inl, upd, b, k) ==
    LET c == ps.code
        i == c.bbs[b][k]
        mkarg == followCastsAndForce(c.ins, i)
        cmk == c.ins[i].args[1]
    IN  IF k > Len(c.bbs[b]) THEN ps
        ELSE IF c.ins[i].kind = "Force" /\ IsKind(c.ins, mkarg, "MkArg")
                /\ ~isEager(c.ins, mkarg) /\ i \in inl
        THEN InlineAt(ps, b, k, mkarg, i \in upd)
        ELSE IF c.ins[i].kind = "CastType" /\ IsKind(c.ins, cmk, "MkArg")
                /\ isEager(c.ins, cmk)
        THEN InlineFromKeepingEagerForces(
               RemoveAt(replaceUsesWith(ps, i, eagerArg(c.ins, cmk)), b, k),
               inl, upd, b, k)
        ELSE InlineFromKeepingEagerForces(ps, inl, upd, b, k + 1)

RECURSIVE InlineFrom(_, _, _, _, _)
\* the lambda of lines 437-513 on block b, from its k-th instruction on
InlineFrom(ps, inl, upd, b, k) ==
    LET c == ps.code
        i == c.bbs[b][k]
        mkarg == followCastsAndForce(c.ins, i)
        cmk == c.ins[i].args[1]
    IN  IF k > Len(c.bbs[b]) THEN ps
        ELSE IF c.ins[i].kind = "Force" /\ IsKind(c.ins, mkarg, "MkArg")
        THEN IF isEager(c.ins, mkarg)
             THEN InlineFrom(
                    RemoveAt(replaceUsesWith(ps, i, eagerArg(c.ins, mkarg)),
                             b, k),
                    inl, upd, b, k)
             ELSE IF i \in inl
             THEN InlineAt(ps, b, k, mkarg, i \in upd)
             ELSE InlineFrom(ps, inl, upd, b, k + 1)
        ELSE IF c.ins[i].kind = "CastType" /\ IsKind(c.ins, cmk, "MkArg")
                /\ isEager(c.ins, cmk)
        THEN InlineFrom(
               RemoveAt(replaceUsesWith(ps, i, eagerArg(c.ins, cmk)), b, k),
               inl, upd, b, k)
        ELSE InlineFrom(ps, inl, upd, b, k + 1)

RECURSIVE InlineBlocks(_, _, _, _)
\* Visitor::runPostChange: every block once, the new blocks included
InlineBlocks(ps, inl, upd, b) ==
    IF b > Len(ps.code.bbs) THEN ps
    ELSE InlineBlocks(InlineFrom(ps, inl, upd, b, 1), inl, upd, b + 1)

\* the instructions of the closure in the order Visitor::run meets them
RECURSIVE CodeOrder(_, _)
CodeOrder(c, b) ==
    IF b > Len(c.bbs) THEN <<>> ELSE c.bbs[b] \o CodeOrder(c, b + 1)

RECURSIVE ReplaceDominatedSeqByDominator(_, _, _)
\* lines 516-536 without the test of line 527: the uses always go to the
\* dominating force
ReplaceDominatedSeqByDominator(ps, dom, q) ==
    IF q = <<>> THEN ps
    ELSE LET f == Head(q)
         IN  ReplaceDominatedSeqByDominator(
               RemoveAt(replaceUsesWith(ps, f, dom[f]),
                        BlockOf(ps.code, f), PosOf(ps.code, f)),
               dom, Tail(q))

RECURSIVE ReplaceDominatedSeq(_, _, _)
\* lines 516-536: the dominated forces q, one after the other
ReplaceDominatedSeq(ps, dom, q) ==
    IF q = <<>> THEN ps
    ELSE LET f == Head(q)
             d == dom[f]
             by == IF d \in DOMAIN ps.inlinedPromise
                   THEN ps.inlinedPromise[d] ELSE d
         IN  ReplaceDominatedSeq(
               RemoveAt(replaceUsesWith(ps, f, by),
                        BlockOf(ps.code, f), PosOf(ps.code, f)),
               dom, Tail(q))

\* instruction d dominates instruction i
InstrDominates(c, d, i) ==
    LET bd == BlockOf(c, d)
        bi == BlockOf(c, i)
    IN  IF bd = bi THEN PosOf(c, d) < PosOf(c, i)
        ELSE Dominates(c.succ, bd, bi)

RECURSIVE ReplaceMkArgs(_, _)
\* lines 539-541: m.first->replaceDominatedUses(m.second)
ReplaceMkArgs(ps, ms) ==
    IF ms = {} THEN ps
    ELSE LET m == Min(ms)
             fixed == ps.forcedMkArg[m]
             c == ps.code
         IN  ReplaceMkArgs(
               [ps EXCEPT !.code.ins =
                   [i \in DOMAIN @ |->
                       IF InCode(c, i) /\ InstrDominates(c, fixed, i)
                       THEN [@[i] EXCEPT !.args =
                               [k \in DOMAIN @ |-> IF @[k] = m THEN fixed
                                                   ELSE @[k]]]
                       ELSE @[i]]],
               ms \ {m})

VARIABLES
    orig,           \* the closure version as it was handed to the pass
    code,           \* the closure version's instructions and CFG
    nargs,          \* ClosureVersion::effectiveNArgs()
    size,           \* [closure |-> code->size(), prom |-> prom->size()]
    pc,             \* the phase the pass is in
    an,             \* the converged analysis, alive during phase A
    noDeopt,        \* Query::noDeopt(prom), by promise
    isEagerProp,    \* ClosureVersion::Property::IsEager
    forceOrder,     \* code->properties.argumentForceOrder
    strict,         \* the forces whose strict flag is set
    toInline,
    needsUpdate,
    dominatedBy,
    inlinedPromise,
    forcedMkArg,
    uses,           \* value -> the value its former uses refer to now
    cur,            \* StaticAnalysis: the block being visited, the place in
                    \* it, the successors its end state has yet to flow into
    st,             \* a ForcedBy state the operations are called on
    prev,           \* st before the last call
    call,           \* the last call on st: operation, arguments, result
    asked,          \* promise -> the calls of Query::noDeopt on it so far
    second,         \* a second invocation of the pass, on another closure
    environ,        \* PIR_PROMISE_INLINER_MAX_SIZE at program start
    wanted          \* the two size limits the user of the compiler asks for

\* the variables of the experiments on one ForcedBy state
opVars == <<st, prev, call>>

vars == <<orig, code, nargs, size, pc, an, noDeopt, isEagerProp, forceOrder,
          strict, toInline, needsUpdate, dominatedBy, inlinedPromise, forcedMkArg, uses,
          cur, st, prev, call, asked, second, environ, wanted>>

\* the engine is not visiting a block
NoBlock == [bb |-> 0, ip |-> 0, todo |-> {}]

\* a call record; unused arguments are null, an unused state is EmptyState
Call(op, val, force, other, changed, res) ==
    [op |-> op, val |-> val, force |-> force, other |-> other,
     changed |-> changed, res |-> res]

NoCall == Call("none", null, null, EmptyState, FALSE, ResNone)

\* no operation is called on a state outside the analysis
OpsIdle == st = EmptyState /\ prev = EmptyState /\ call = NoCall

\* there is no second invocation
NoInvocation == [pc |-> "none"]

\* the pass runs alone and has not asked Query::noDeopt anything
Alone == asked = [p \in Promises(code) |-> 0] /\ second = NoInvocation

\* the environment leaves the parameter alone and the limits asked for are
\* the ones the code starts with
DefaultLimits ==
    /\ environ = Unset
    /\ wanted = [closure |-> PROMISE_INLINER_MAX_SIZE, prom |-> SmallPromise]

\* hasDeopt as a map shared by all invocations: an answer that the first
\* invocation has asked for is reused by whoever asks next
hasDeoptAnswerShared(p, own) ==
    IF p \in DOMAIN asked /\ asked[p] > 0 THEN ~noDeopt[p] ELSE own

\* lines 258-266: the answer isSafeToInline works with for promise p when
\* Query::noDeopt says own: hasDeopt is a member of the state, the call is
\* made on the copy of line 406, whose map is empty, so the branch of lines
\* 261-265 is taken and own is the answer
hasDeoptAnswer(p, own) == own

\* lines 406-407: the calls of Query::noDeopt that the calls of
\* isSafeToInline for the forces cand make, by promise
OracleCalls(c, cand) ==
    [p \in Promises(c) |->
        Cardinality({f \in cand :
                        c.ins[followCastsAndForce(c.ins, f)].n = p})]

\* ClosureVersion::size(): the number of instructions of the closure
CodeSize(c) == Cardinality({i \in DOMAIN c.ins : InCode(c, i)})

Init ==
    /\ \E shape \in DOMAIN Shapes, eager \in BOOLEAN :
         \E body \in Bodies(Shapes[shape], MaxBody) :
            code = MkCode(eager, shape, body)
    /\ orig = code
    /\ nargs \in 1..2
    /\ size = [closure |-> CodeSize(code), prom |-> 2,
              max |-> MaxSizeFrom(Unset)]
    /\ pc = "start"
    /\ an = InitAnalysis(code)
    /\ noDeopt \in [Promises(code) -> BOOLEAN]
    /\ isEagerProp = FALSE
    /\ forceOrder = <<>>
    /\ strict = {}
    /\ toInline = {}
    /\ needsUpdate = {}
    /\ dominatedBy = EmptyMap
    /\ inlinedPromise = EmptyMap
    /\ forcedMkArg = EmptyMap
    /\ uses = EmptyMap
    /\ cur = NoBlock
    /\ OpsIdle
    /\ Alone
    /\ DefaultLimits

\* lines 382-431: the analysis and the classification of phase A
Classify ==
    /\ pc = "start"
    /\ an' = Analysis(code, nargs)
    /\ isEagerProp' = eagerLikeFunction(an'.exit, nargs)
    /\ forceOrder' = an'.exit.argumentForceOrder
    /\ strict' = DominatingForces(code, nargs, an')
    /\ LET oracle == [p \in Promises(code) |->
                         hasDeoptAnswer(p, ~noDeopt[p])]
           cand == InlineCandidates(code, strict', size)
           answer == [f \in cand |->
                         InlineAnswer(code, nargs, an', oracle, f)]
       IN  /\ toInline' = {f \in cand : answer[f] # "NotSafeToInline"}
           /\ needsUpdate' =
                  {f \in cand : answer[f] = "SafeToInlineWithUpdate"}
           /\ asked' = OracleCalls(code, cand)
    /\ dominatedBy' =
           [f \in DominatedForces(code, nargs, an', strict') |->
               getDominatingForce(code.ins,
                   resultIgnoringUnreachableExits(code, nargs, an', f), f)]
    /\ code' = RemoveAll(code, DeadUpdates(code, nargs, an'))
    /\ pc' = "classified"
    /\ UNCHANGED <<orig, nargs, size, noDeopt, inlinedPromise, forcedMkArg,
                   uses, cur, opVars, second, environ, wanted>>

PassState ==
    [code |-> code, inlinedPromise |-> inlinedPromise,
     forcedMkArg |-> forcedMkArg, uses |-> uses]

\* lines 433-513: phase B, inline the dominating promises
Inline ==
    /\ pc = "classified"
    /\ LET ps == InlineBlocks(PassState, toInline, needsUpdate, 1)
       IN  /\ code' = ps.code
           /\ inlinedPromise' = ps.inlinedPromise
           /\ forcedMkArg' = ps.forcedMkArg
           /\ uses' = ps.uses
    /\ pc' = "inlined"
    /\ UNCHANGED <<orig, nargs, size, an, noDeopt, isEagerProp, forceOrder,
                   strict, toInline, needsUpdate, dominatedBy, cur, opVars,
                   asked, second, environ, wanted>>

\* lines 515-541: phase C, replace the dominated forces, then the remaining
\* uses of the inlined MkArgs
ReplaceDominated ==
    /\ pc = "inlined"
    /\ LET q == SelectSeq(CodeOrder(code, 1),
                          LAMBDA i : code.ins[i].kind = "Force"
                                     /\ i \in DOMAIN dominatedBy)
           ps1 == ReplaceDominatedSeq(PassState, dominatedBy, q)
           ps == ReplaceMkArgs(ps1, DOMAIN ps1.forcedMkArg)
       IN  /\ code' = ps.code
           /\ uses' = ps.uses
    /\ pc' = "done"
    /\ UNCHANGED <<orig, nargs, size, an, noDeopt, isEagerProp, forceOrder,
                   strict, toInline, needsUpdate, dominatedBy, inlinedPromise,
                   forcedMkArg, cur, opVars, asked, second, environ,
                   wanted>>

Next == Classify \/ Inline \/ ReplaceDominated

Spec == Init /\ [][Next]_vars

(***************************************************************************)
(* Execution paths of the closure handed to the pass, used to state what   *)
(* the classification means for the executions of the closure.             *)
(***************************************************************************)
MaxPath == 4

RECURSIVE PathsUpTo(_, _)
\* the paths of at most n blocks through the CFG succ that start at the entry
PathsUpTo(succ, n) ==
    IF n = 1 THEN {<<1>>}
    ELSE LET shorter == PathsUpTo(succ, n - 1)
             full == {p \in shorter : Len(p) = n - 1}
         IN  shorter \cup
             UNION {{Append(p, t) : t \in succ[p[Len(p)]]} : p \in full}

RECURSIVE Trace(_, _)
\* the instructions executed along the path p, in order
Trace(c, p) ==
    IF p = <<>> THEN <<>> ELSE c.bbs[Head(p)] \o Trace(c, Tail(p))

Traces(c) == {Trace(c, p) : p \in PathsUpTo(c.succ, MaxPath)}

\* the value a force forces: its operand behind the casts
ForcedValue(c, f) == followCasts(c.ins, c.ins[f].args[1])

IsForceOf(c, g, v) == c.ins[g].kind = "Force" /\ ForcedValue(c, g) = v

Forces(c) == {f \in DOMAIN c.ins : c.ins[f].kind = "Force" /\ InCode(c, f)}

(***************************************************************************)
(* C1                                                                      *)
(***************************************************************************)
\* C1 as stated: for every force f classified as its own dominator, no path
\* from the entry executes another force of the same value without f having
\* executed before it.
C1_NoOtherForceWithoutIt ==
    pc # "start" =>
        \A f \in strict : \A t \in Traces(orig) : \A j \in 1..Len(t) :
            (t[j] # f /\ IsForceOf(orig, t[j], ForcedValue(orig, f)))
                => \E i \in 1..(j - 1) : t[i] = f

\* C1 amended: a force f classified as its own dominator is the first force
\* of its value on every path from the entry that reaches f; paths that do
\* not pass through f are not constrained.
C1_FirstForceOnPathsThroughIt ==
    pc # "start" =>
        \A f \in strict : \A t \in Traces(orig) : \A j \in 1..Len(t) :
            t[j] = f
                => \A i \in 1..(j - 1) :
                       ~IsForceOf(orig, t[i], ForcedValue(orig, f))

\* a force is its own dominator and the closure holds another force of the
\* same value
C1_Witness ==
    /\ pc = "classified"
    /\ \E f \in strict : \E g \in Forces(orig) \ {f} :
          IsForceOf(orig, g, ForcedValue(orig, f))

(***************************************************************************)
(* C2                                                                      *)
(***************************************************************************)
\* the diamond scenario: v is declared in the entry block, f1 forces it on
\* the left arm, f2 forces it after the join, and no force of v stands on
\* the right arm or before the branch
C2_Scenario(v, f1, f2) ==
    /\ orig.succ = Shapes.Diamond
    /\ v \in {P.x, P.y, P.a}
    /\ f1 \in Range(orig.bbs[2]) /\ IsForceOf(orig, f1, v)
    /\ f2 \in Range(orig.bbs[4]) /\ IsForceOf(orig, f2, v)
    /\ \A g \in Range(orig.bbs[1]) \cup Range(orig.bbs[3]) :
          ~IsForceOf(orig, g, v)

C2_Unclassified(f2) ==
    f2 \notin strict /\ f2 \notin toInline /\ f2 \notin DOMAIN dominatedBy

\* C2 as stated: in the diamond scenario the force after the join is not
\* strict, not queued for inlining, has no recorded dominator, and after the
\* pass it is still in the CFG with its uses unchanged.
C2_JoinForceUntouched ==
    \A v, f1, f2 \in DOMAIN orig.ins :
        C2_Scenario(v, f1, f2) =>
            /\ C2_Unclassified(f2)
            /\ pc = "done" => InCode(code, f2) /\ f2 \notin DOMAIN uses

\* C2 amended: in the diamond scenario the force after the join is not
\* strict, not queued for inlining and has no recorded dominator; after the
\* pass it is still in the CFG with its uses unchanged unless its operand is
\* itself an eager MkArg, in which case phase B has deleted the force and
\* redirected its uses to the MkArg's eager payload.  A force that reaches
\* the eager MkArg through a cast stays: the cast is collapsed first.
C2_JoinForceKeptUnlessEager ==
    \A v, f1, f2 \in DOMAIN orig.ins :
        C2_Scenario(v, f1, f2) =>
            /\ C2_Unclassified(f2)
            /\ pc = "done" =>
                 IF /\ orig.ins[v].kind = "MkArg" /\ isEager(orig.ins, v)
                    /\ orig.ins[f2].args[1] = v
                 THEN /\ ~InCode(code, f2)
                      /\ f2 \in DOMAIN uses
                      /\ uses[f2] = eagerArg(orig.ins, v)
                 ELSE InCode(code, f2) /\ f2 \notin DOMAIN uses

\* the pass has run on a diamond whose lazy promise is forced on the left
\* arm and after the join, and the force after the join is still there
C2_Witness ==
    /\ pc = "done"
    /\ \E f1, f2 \in DOMAIN orig.ins :
          /\ C2_Scenario(P.a, f1, f2)
          /\ ~isEager(orig.ins, P.a)
          /\ f1 \in DOMAIN inlinedPromise
          /\ InCode(code, f2)

(***************************************************************************)
(* C3                                                                      *)
(***************************************************************************)
\* the promise a force forces, null when it does not force a MkArg
PromiseOf(c, f) ==
    LET mk == followCastsAndForce(c.ins, f)
    IN  IF IsKind(c.ins, mk, "MkArg") THEN c.ins[mk].n ELSE null

\* C3: a force of a promise whose body can deoptimize is never put into
\* toInline and the promise body is never cloned into the closure, whatever
\* else holds of the force.
C3_DeoptingPromiseNeverInlined ==
    \A p \in Promises(orig) :
        ~noDeopt[p] =>
            /\ \A f \in Forces(orig) :
                  PromiseOf(orig, f) = p
                      => f \notin toInline /\ f \notin DOMAIN inlinedPromise
            /\ \A mk \in DOMAIN forcedMkArg : orig.ins[mk].n # p
            /\ Promises(orig) = {p}
                  => /\ DOMAIN code.ins = DOMAIN orig.ins
                     /\ Len(code.bbs) = Len(orig.bbs)

\* the pass has finished on a closure in which a lazy, unescaped MkArg with
\* a deoptimizing promise is forced by a force that is its own dominator
C3_Witness ==
    /\ pc = "done"
    /\ \E f \in strict :
          LET mk == followCastsAndForce(orig.ins, f)
          IN  /\ IsKind(orig.ins, mk, "MkArg")
              /\ ~isEager(orig.ins, mk)
              /\ ~noDeopt[orig.ins[mk].n]
              /\ SizeAllowsInline(size.max, size.closure, size.prom)
              /\ mk \notin after(orig, nargs, an, f).escaped
              /\ InCode(code, f)

(***************************************************************************)
(* C4                                                                      *)
(***************************************************************************)
\* straight-line code b = force(a); c = force(b)
C4_Chain(b, c) ==
    /\ orig.succ = Shapes.Linear
    /\ orig.ins[b].kind = "Force" /\ orig.ins[c].kind = "Force"
    /\ orig.ins[c].args[1] = b

\* C4: in straight-line code b = force(a); c = force(b), after the pass c's
\* force is deleted from the CFG and every use of c refers to b's force, or
\* to b's inlined result when b was inlined.
C4_ChainedForceRemoved ==
    pc = "done" =>
        \A b, c \in DOMAIN orig.ins :
            C4_Chain(b, c) =>
                /\ ~InCode(code, c)
                /\ c \in DOMAIN uses
                /\ uses[c] = IF b \in DOMAIN inlinedPromise
                             THEN inlinedPromise[b] ELSE b

\* the pass has finished on a linear chain whose first force was inlined
C4_Witness ==
    /\ pc = "done"
    /\ \E b, c \in DOMAIN orig.ins :
          C4_Chain(b, c) /\ b \in DOMAIN inlinedPromise

(***************************************************************************)
(* C5 and C6: the inlining scenario                                        *)
(***************************************************************************)
\* instruction i of closure c hands the value v to ForcedBy::escape
EscapesAt(c, i, v) ==
    /\ c.ins[i].kind \notin {"Force", "MkArg", "CastType", "Deopt"}
    /\ ~(c.ins[i].kind = "MkEnv" /\ c.ins[i].stub)
    /\ v \in EscapingArgs(c.ins, i)

\* on some path to instruction i the value v is handed to escape before i
EscapesBefore(c, v, i) ==
    \E t \in Traces(c) : \E j \in 1..Len(t) :
        t[j] = i /\ \E e \in 1..(j - 1) : EscapesAt(c, t[e], v)

\* a = MkArg(P) is lazy, P cannot deoptimize and is small enough, and b is
\* the one force of a that is its own dominator
InlineScenario(a, b) ==
    /\ IsKind(orig.ins, a, "MkArg") /\ ~isEager(orig.ins, a)
    /\ noDeopt[orig.ins[a].n]
    /\ SizeAllowsInline(size.max, size.closure, size.prom)
    /\ b \in strict
    /\ followCastsAndForce(orig.ins, b) = a
    /\ \A g \in strict : followCastsAndForce(orig.ins, g) = a => g = b

Added == {i \in DOMAIN code.ins : i \notin DOMAIN orig.ins /\ InCode(code, i)}

\* C6: in the inlining scenario the force is inlined whether or not a has
\* escaped; when a was handed to an escaping instruction before the force,
\* an UpdatePromise(a, inlined result) is inserted right after the new MkArg
\* in the block that follows the inlined body, and when a has not escaped no
\* UpdatePromise is inserted.
C6_UpdateInsertedIffEscaped ==
    pc \in {"inlined", "done"} =>
        \A a, b \in DOMAIN orig.ins :
            InlineScenario(a, b) =>
                /\ b \in DOMAIN inlinedPromise
                /\ a \in DOMAIN forcedMkArg
                /\ LET res == inlinedPromise[b]
                       fixed == forcedMkArg[a]
                       blk == BlockOf(code, fixed)
                       k == PosOf(code, fixed)
                   IN  /\ code.succ[BlockOf(code, res)] = {blk}
                       /\ IF EscapesBefore(orig, a, b)
                          THEN /\ k < Len(code.bbs[blk])
                               /\ LET u == code.bbs[blk][k + 1]
                                  IN  /\ u \in Added
                                      /\ code.ins[u].kind = "UpdatePromise"
                                      /\ code.ins[u].args[2] = res
                                      /\ pc = "inlined"
                                            => code.ins[u].args[1] = a
                          ELSE \A u \in Added :
                                  code.ins[u].kind # "UpdatePromise"

\* phase B has inlined the force of a MkArg that a non-stub MkEnv had taken
\* as an operand before
C6_Witness ==
    /\ pc = "inlined"
    /\ \E a, b \in DOMAIN orig.ins :
          /\ InlineScenario(a, b)
          /\ EscapesBefore(orig, a, b)
          /\ \E u \in Added : code.ins[u] = UpdatePromise(a, inlinedPromise[b])

(***************************************************************************)
(* C7                                                                      *)
(***************************************************************************)
\* the UpdatePromise instructions of the closure whose target is a MkArg
Updates(c) ==
    {u \in DOMAIN c.ins :
        /\ InCode(c, u) /\ c.ins[u].kind = "UpdatePromise"
        /\ IsKind(c.ins, c.ins[u].args[1], "MkArg")}

\* C7 as stated: an UpdatePromise is removed by the pass if its target MkArg
\* was on no path handed to an escaping instruction before it, and it is
\* preserved if the target was.
C7_RemovedIffNeverEscaped ==
    pc = "done" =>
        \A u \in Updates(orig) :
            InCode(code, u) <=> EscapesBefore(orig, orig.ins[u].args[1], u)

\* on some path to i the value v is handed to an escaping instruction that
\* no force of v precedes on any path
EscapesUnforcedBefore(c, v, i) ==
    \E t \in Traces(c) : \E j \in 1..Len(t) :
        /\ t[j] = i
        /\ \E e \in 1..(j - 1) :
              /\ EscapesAt(c, t[e], v)
              /\ \A t2 \in Traces(c) : \A j2 \in 1..Len(t2) :
                    t2[j2] = t[e]
                        => \A k \in 1..(j2 - 1) : ~IsForceOf(c, t2[k], v)

\* C7 amended: an UpdatePromise in a block phase A visits (reached without
\* entering a deopt branch) is removed if its target MkArg was on no path
\* handed to an escaping instruction before it, and preserved if on some path
\* the target was handed to an escaping instruction that no force of the
\* target can precede; an UpdatePromise in a deopt branch is always
\* preserved.
C7_VisitedRemovedIffNeverEscaped ==
    pc # "start" =>
        \A u \in Updates(orig) :
            LET a == orig.ins[u].args[1]
            IN  IF u \in VisitedNoDeopt(orig)
                THEN /\ ~EscapesBefore(orig, a, u) => ~InCode(code, u)
                     /\ EscapesUnforcedBefore(orig, a, u) => InCode(code, u)
                ELSE InCode(code, u)

\* the pass has finished and has removed an UpdatePromise whose target never
\* escaped
C7_Witness ==
    /\ pc = "done"
    /\ \E u \in Updates(orig) :
          /\ u \in VisitedNoDeopt(orig)
          /\ ~EscapesBefore(orig, orig.ins[u].args[1], u)
          /\ ~InCode(code, u)

(***************************************************************************)
(* C8                                                                      *)
(***************************************************************************)
\* C8 as stated: eagerLikeFunction is true exactly when argumentForceOrder
\* is the sequence 0, 1, ..., N-1 with no further entries and
\* ambiguousForceOrder is false.
C8_EagerIffExactOrder ==
    pc # "start" =>
        (isEagerProp <=>
            /\ ~an.exit.ambiguousForceOrder
            /\ forceOrder = [i \in 1..nargs |-> i - 1])

\* C8 amended: eagerLikeFunction is true exactly when ambiguousForceOrder is
\* false and the first N entries of argumentForceOrder are 0, 1, ..., N-1;
\* further entries may follow them.
C8_EagerIffOrderedPrefix ==
    pc # "start" =>
        (isEagerProp <=>
            /\ ~an.exit.ambiguousForceOrder
            /\ Len(forceOrder) >= nargs
            /\ SubSeq(forceOrder, 1, nargs) = [i \in 1..nargs |-> i - 1])

\* the closure was found eager although more arguments are recorded than it
\* has effective parameters
C8_Witness ==
    pc # "start" /\ isEagerProp /\ Len(forceOrder) > nargs

(***************************************************************************)
(* C9                                                                      *)
(***************************************************************************)
\* a generic instruction whose effects include Effect::Force
SideEffecting(c, i) == c.ins[i].kind = "Other" /\ c.ins[i].force

\* the parameters forced by the instructions q
ForcedArgs(c, q) ==
    {c.ins[ForcedValue(c, q[k])].n :
        k \in {k \in 1..Len(q) : c.ins[q[k]].kind = "Force"
                                 /\ IsKind(c.ins, ForcedValue(c, q[k]), "LdArg")}}

\* on some path a side-effecting instruction runs before one of the first n
\* parameters has been forced
EffectBeforeCoverage(c, n) ==
    \E t \in Traces(c) : \E j \in 1..Len(t) :
        /\ SideEffecting(c, t[j])
        /\ ~((0..(n - 1)) \subseteq ForcedArgs(c, SubSeq(t, 1, j - 1)))

\* C9: a side-effecting instruction met while argumentForceOrder holds fewer
\* entries than the closure has parameters leaves ambiguousForceOrder set,
\* and a closure in which a side effect can run before all its parameters
\* are forced is not marked IsEager.
C9_EffectBeforeCoverageGivesUp ==
    pc # "start" =>
        /\ \A i \in DOMAIN orig.ins :
              (InCode(orig, i) /\ SideEffecting(orig, i)
               /\ Len(before(orig, nargs, an, i).argumentForceOrder) < nargs)
                  => after(orig, nargs, an, i).ambiguousForceOrder
        /\ EffectBeforeCoverage(orig, nargs) => ~isEagerProp

\* a side-effecting instruction gave the force order up in a closure that
\* forces all its parameters
C9_Witness ==
    /\ pc # "start"
    /\ \E i \in DOMAIN orig.ins :
          /\ InCode(orig, i) /\ SideEffecting(orig, i)
          /\ ~before(orig, nargs, an, i).ambiguousForceOrder
          /\ Len(before(orig, nargs, an, i).argumentForceOrder) < nargs
    /\ \A t \in Traces(orig) :
          Len(t) = Len(CodeOrder(orig, 1))
              => (0..(nargs - 1)) \subseteq ForcedArgs(orig, t)

(***************************************************************************)
(* C10                                                                     *)
(***************************************************************************)
\* the entry block forces first v then w, with no side effect before the
\* force of w
ForcesInOrder(c, v, w) ==
    LET q == c.bbs[1]
    IN  \E j \in 1..Len(q) : \E k \in (j + 1)..Len(q) :
            /\ IsForceOf(c, q[j], v) /\ IsForceOf(c, q[k], w)
            /\ \A m \in 1..(j - 1) :
                  ~IsForceOf(c, q[m], w) /\ ~IsForceOf(c, q[m], v)
            /\ \A m \in 1..(k - 1) :
                  ~SideEffecting(c, q[m]) /\ ~IsForceOf(c, q[m], w)

\* C10: when a closure with the two lazy parameters x and y forces x then y
\* with no side effect in between, IsEager is set and the recorded order is
\* <<0, 1>>; when it forces y then x, IsEager is not set.
C10_EagerWhenForcedInOrder ==
    (pc # "start" /\ nargs = 2) =>
        /\ ForcesInOrder(orig, P.x, P.y)
              => isEagerProp /\ forceOrder = <<0, 1>>
        /\ ForcesInOrder(orig, P.y, P.x) => ~isEagerProp

\* the pass has run on a two-parameter closure that forces x then y
C10_Witness ==
    /\ pc = "done" /\ nargs = 2
    /\ ForcesInOrder(orig, P.x, P.y)
    /\ isEagerProp

(***************************************************************************)
(* The fixed-point iteration of StaticAnalysis, one step per instruction   *)
(* the transfer function is applied to and one per merge of a block's end  *)
(* state.  SpecFix runs it on the closures of Spec and on loops whose body *)
(* declares a MkArg anew in every round.                                   *)
(***************************************************************************)
MaxLoopBody == 3

\* the instructions of a loop body: those of Templates, a MkArg declared in
\* the loop, and a non-stub MkEnv that takes an earlier value of the body
LoopTemplates(vals) ==
    Templates(vals) \cup {MkArg(1, null)}
    \cup {MkEnv(<<v>>, FALSE) : v \in vals}

RECURSIVE LoopBodies(_)
\* the bodies of at most n instructions, all of them in the loop block
LoopBodies(n) ==
    IF n = 0 THEN {<<>>}
    ELSE LET shorter == LoopBodies(n - 1)
             full == {q \in shorter : Len(q) = n - 1}
             base == Len(Prologue(FALSE))
         IN  shorter \cup
             UNION {
               {Append(q, [i |-> t, b |-> 2]) :
                  t \in LoopTemplates({base + j : j \in
                          {j \in 1..Len(q) :
                              q[j].i.kind \in {"Force", "CastType", "MkArg"}}})}
               : q \in full}

\* the closures the iteration is run on; the transfer function does not ask
\* whether a MkArg is eager, so the prologue's MkArg is lazy in all of them
FixCodes ==
    UNION {{MkCode(FALSE, shape, body) :
               body \in Bodies(Shapes[shape], MaxBody)}
           : shape \in DOMAIN Shapes}
    \cup {MkCode(FALSE, "Loop", body) : body \in LoopBodies(MaxLoopBody)}

InitFix ==
    /\ code \in FixCodes
    /\ orig = code
    /\ nargs \in 1..2
    /\ size = [closure |-> CodeSize(code), prom |-> 2,
              max |-> MaxSizeFrom(Unset)]
    /\ pc = "analysis"
    /\ an = InitAnalysis(code)
    /\ noDeopt = [p \in Promises(code) |-> TRUE]
    /\ isEagerProp = FALSE
    /\ forceOrder = <<>>
    /\ strict = {}
    /\ toInline = {}
    /\ needsUpdate = {}
    /\ dominatedBy = EmptyMap
    /\ inlinedPromise = EmptyMap
    /\ forcedMkArg = EmptyMap
    /\ uses = EmptyMap
    /\ cur = NoBlock
    /\ OpsIdle
    /\ Alone
    /\ DefaultLimits

\* the variables the iteration leaves alone
fixedVars ==
    <<orig, code, nargs, size, noDeopt, isEagerProp, forceOrder, strict,
      toInline, needsUpdate, dominatedBy, inlinedPromise, forcedMkArg, uses,
      prev, call, asked, second, environ, wanted>>

\* the next block whose entry state changed is taken up: the transfer
\* function starts from its entry state
StartBlock ==
    /\ pc = "analysis"
    /\ an.changed # {}
    /\ LET b == NextBlock(an, cur.bb)
       IN  /\ cur' = [bb |-> b, ip |-> 1, todo |-> {}]
           /\ st' = an.entry[b]
           /\ an' = [an EXCEPT !.changed = @ \ {b}]
    /\ pc' = "block"
    /\ UNCHANGED fixedVars

\* the transfer function is applied to the next instruction of the block
ApplyInstr ==
    /\ pc = "block"
    /\ cur.ip <= Len(code.bbs[cur.bb])
    /\ st' = Transfer(code.ins, nargs, st, code.bbs[cur.bb][cur.ip]).st
    /\ cur' = [cur EXCEPT !.ip = @ + 1]
    /\ UNCHANGED <<pc, an>>
    /\ UNCHANGED fixedVars

\* the end of the block is reached: at an exit its state is merged into the
\* exit state, otherwise it is due to flow into the successors
EndBlock ==
    /\ pc = "block"
    /\ cur.ip > Len(code.bbs[cur.bb])
    /\ IF code.succ[cur.bb] = {}
       THEN /\ an' = [an EXCEPT !.exit = IF an.exitSeen
                                         THEN mergeExit(@, st).st ELSE st,
                                !.exitSeen = TRUE]
            /\ pc' = "analysis"
       ELSE /\ an' = an
            /\ pc' = "flow"
    /\ cur' = [cur EXCEPT !.todo = code.succ[cur.bb]]
    /\ UNCHANGED st
    /\ UNCHANGED fixedVars

\* the end state of the block is merged into the entry state of its next
\* successor
MergeNext ==
    /\ pc = "flow"
    /\ LET t == Min(cur.todo)
       IN  /\ an' = MergeInto(an, t, st)
           /\ cur' = [cur EXCEPT !.todo = @ \ {t}]
           /\ pc' = IF cur.todo = {t} THEN "analysis" ELSE "flow"
    /\ UNCHANGED st
    /\ UNCHANGED fixedVars

\* the loop ends: no entry state changed in the last round
Converge ==
    /\ pc = "analysis"
    /\ an.changed = {}
    /\ pc' = "converged"
    /\ UNCHANGED <<an, cur, st>>
    /\ UNCHANGED fixedVars

NextFix == StartBlock \/ ApplyInstr \/ EndBlock \/ MergeNext \/ Converge

\* the pass is one thread that runs the loop to its end: the iteration is
\* never left waiting
SpecFix == InitFix /\ [][NextFix]_vars /\ WF_vars(NextFix)

(***************************************************************************)
(* C11                                                                     *)
(***************************************************************************)
\* C11: the fixed-point iteration terminates on every closure, loops that
\* declare a MkArg anew and hold side-effecting instructions included: a
\* round is reached in which no merge into an entry state reports a change.
C11_FixedPointReached == <>(pc = "converged" /\ an.changed = {})

\* the iteration has ended on a loop whose body declares a MkArg, hands it to
\* a non-stub MkEnv and runs a side-effecting instruction, and the back edge
\* has changed the entry state of the loop block
C11_Witness ==
    /\ pc = "converged"
    /\ code.succ = Shapes.Loop
    /\ \E m, e, o \in Range(code.bbs[2]) :
          /\ code.ins[m].kind = "MkArg"
          /\ code.ins[e].kind = "MkEnv" /\ m \in EscapingArgs(code.ins, e)
          /\ SideEffecting(code, o)
    /\ an.entry[2] # RunSeq(code.ins, nargs, EmptyState, code.bbs[1])

(***************************************************************************)
(* The operations of ForcedBy on their own.  SpecOps draws a state, calls  *)
(* declare, forcedAt, escape and sideeffect on it in any order, and merges *)
(* a drawn state with any other state; prev and call keep the state before *)
(* the last call and the call itself.                                      *)
(***************************************************************************)
MaxVal == 1

MaxForce == 2

MaxArg == 3

MaxOrder == 2

\* the values and the Force instructions of the experiments
OpVals == 1..MaxVal

OpForces == (MaxVal + 1)..(MaxVal + MaxForce)

RECURSIVE ForceOrders(_)
\* the sequences of at most n argument indices without repetition, as
\* lines 323-326 build them
ForceOrders(n) ==
    IF n = 0 THEN {<<>>}
    ELSE LET shorter == ForceOrders(n - 1)
         IN  shorter \cup
             UNION {{Append(q, i) : i \in (0..(MaxArg - 1)) \ Range(q)}
                    : q \in {q \in shorter : Len(q) = n - 1}}

\* the states of ForcedBy over these values: a value forced by a specific
\* instruction is in scope (forcedAt is called on declared values, mergeExit
\* puts what it adopts in scope); an ambiguous entry need not be (sideeffect
\* marks escaped values, and a parameter that cannot be lazy escapes without
\* being declared)
AbstractStates ==
    {s \in [forcedBy : UNION {[D -> OpForces \cup {ambiguous}]
                               : D \in SUBSET OpVals},
            inScope : SUBSET OpVals,
            escaped : SUBSET OpVals,
            argumentForceOrder : ForceOrders(MaxOrder),
            ambiguousForceOrder : BOOLEAN] :
        \A v \in DOMAIN s.forcedBy :
            s.forcedBy[v] # ambiguous => v \in s.inScope}

\* the variables of the pass, at rest
passVars ==
    <<orig, code, nargs, size, pc, an, noDeopt, isEagerProp, forceOrder,
      strict, toInline, needsUpdate, dominatedBy, inlinedPromise, forcedMkArg,
      uses, cur, asked, second, environ, wanted>>

InitOps ==
    /\ st \in AbstractStates
    /\ prev = st
    /\ call = NoCall
    /\ code = MkCode(FALSE, "Linear", <<>>)
    /\ orig = code
    /\ nargs = MaxArg
    /\ size = [closure |-> CodeSize(code), prom |-> 2,
              max |-> MaxSizeFrom(Unset)]
    /\ pc = "ops"
    /\ an = InitAnalysis(code)
    /\ noDeopt = [p \in Promises(code) |-> TRUE]
    /\ isEagerProp = FALSE
    /\ forceOrder = <<>>
    /\ strict = {}
    /\ toInline = {}
    /\ needsUpdate = {}
    /\ dominatedBy = EmptyMap
    /\ inlinedPromise = EmptyMap
    /\ forcedMkArg = EmptyMap
    /\ uses = EmptyMap
    /\ cur = NoBlock
    /\ Alone
    /\ DefaultLimits

MergeOps == {"merge", "mergeExit"}

\* state.declare(v)
DoDeclare ==
    /\ pc = "ops" /\ call.op \notin MergeOps
    /\ \E v \in OpVals :
          LET r == declare(st, v)
          IN  /\ st' = r.st
              /\ call' = Call("declare", v, null, EmptyState, r.changed, ResNone)
    /\ prev' = st
    /\ UNCHANGED passVars

\* state.forcedAt(v, f), called as the transfer function calls it: on a
\* value that was declared
DoForcedAt ==
    /\ pc = "ops" /\ call.op \notin MergeOps
    /\ \E v \in st.inScope : \E f \in OpForces :
          LET r == forcedAt(st, v, f)
          IN  /\ st' = r.st
              /\ call' = Call("forcedAt", v, f, EmptyState, r.changed, ResNone)
    /\ prev' = st
    /\ UNCHANGED passVars

\* state.escape(v)
DoEscape ==
    /\ pc = "ops" /\ call.op \notin MergeOps
    /\ \E v \in OpVals :
          LET r == escape(st, v)
          IN  /\ st' = r.st
              /\ call' = Call("escape", v, null, EmptyState, r.changed, ResNone)
    /\ prev' = st
    /\ UNCHANGED passVars

\* state.sideeffect()
DoSideeffect ==
    /\ pc = "ops" /\ call.op \notin MergeOps
    /\ LET r == sideeffect(st)
       IN  /\ st' = r.st
           /\ call' = Call("sideeffect", null, null, EmptyState, r.changed,
                           ResNone)
    /\ prev' = st
    /\ UNCHANGED passVars

\* state.merge(other) on a drawn state
DoMerge ==
    /\ pc = "ops" /\ call.op = "none"
    /\ \E other \in AbstractStates :
          LET r == merge(st, other)
          IN  /\ st' = r.st
              /\ call' = Call("merge", null, null, other, r.res > ResNone,
                              r.res)
    /\ prev' = st
    /\ UNCHANGED passVars

\* state.mergeExit(other) on a drawn state
DoMergeExit ==
    /\ pc = "ops" /\ call.op = "none"
    /\ \E other \in AbstractStates :
          LET r == mergeExit(st, other)
          IN  /\ st' = r.st
              /\ call' = Call("mergeExit", null, null, other, r.res > ResNone,
                              r.res)
    /\ prev' = st
    /\ UNCHANGED passVars

NextOps ==
    DoDeclare \/ DoForcedAt \/ DoEscape \/ DoSideeffect \/ DoMerge
    \/ DoMergeExit

SpecOps == InitOps /\ [][NextOps]_vars

\* the forced status of value v in state s: absent (null), a Force, ambiguous
Entry(s, v) == IF Count(s, v) THEN s.forcedBy[v] ELSE null

\* the last call was A.merge(B) or A.mergeExit(B): A is prev, B is call.other
Merged == call.op \in MergeOps

(***************************************************************************)
(* C12                                                                     *)
(***************************************************************************)
\* value v has an entry in state s, none in state t, and is in scope in t
ForcedOnlyIn(s, t, v) == Count(s, v) /\ ~Count(t, v) /\ v \in t.inScope

\* C12: after A.merge(B), every value that has a forcedBy entry in exactly
\* one of A and B and is in the inScope set of the state lacking the entry
\* is ambiguous in A, whether the forced side is A or B.
C12_MergeDegradesBothWays ==
    call.op = "merge" =>
        \A v \in OpVals :
            (ForcedOnlyIn(prev, call.other, v)
             \/ ForcedOnlyIn(call.other, prev, v))
                => Entry(st, v) = ambiguous

\* a merge met a value forced by a specific instruction on the other side
\* only and in scope on the receiving side
C12_Witness ==
    /\ call.op = "merge"
    /\ \E v \in OpVals :
          /\ ForcedOnlyIn(call.other, prev, v)
          /\ Entry(call.other, v) \in OpForces

(***************************************************************************)
(* C13                                                                     *)
(***************************************************************************)
\* C13: A.mergeExit(B) makes an entry of A ambiguous only when both states
\* have an entry for the value and the entries differ; an entry only B has
\* is adopted as it is, also when the value is in A's inScope set; an entry
\* only A has is kept as it is.
C13_MergeExitAdopts ==
    call.op = "mergeExit" =>
        \A v \in OpVals :
            /\ (Entry(st, v) = ambiguous /\ Entry(prev, v) # ambiguous)
                  => IF Count(prev, v)
                     THEN /\ Count(call.other, v)
                          /\ Entry(prev, v) # Entry(call.other, v)
                     ELSE Entry(call.other, v) = ambiguous
            /\ (~Count(prev, v) /\ Count(call.other, v))
                  => Entry(st, v) = Entry(call.other, v)
            /\ (Count(prev, v) /\ ~Count(call.other, v))
                  => Entry(st, v) = Entry(prev, v)

\* a mergeExit adopted the specific entry of a value that was in scope and
\* unforced in the receiver
C13_Witness ==
    /\ call.op = "mergeExit"
    /\ \E v \in OpVals :
          /\ ForcedOnlyIn(call.other, prev, v)
          /\ Entry(call.other, v) \in OpForces
          /\ Entry(st, v) = Entry(call.other, v)

(***************************************************************************)
(* C14                                                                     *)
(***************************************************************************)
\* the longest common prefix of two sequences
CommonPrefix(p, q) ==
    LET n == IF Len(p) < Len(q) THEN Len(p) ELSE Len(q)
        k == CHOOSE k \in 0..n :
                /\ \A j \in 1..k : p[j] = q[j]
                /\ k = n \/ p[k + 1] # q[k + 1]
    IN  SubSeq(p, 1, k)

\* C14: after merge and after mergeExit the receiver's argumentForceOrder is
\* the longest common prefix of the two input sequences; the flag
\* ambiguousForceOrder is set whenever the input sequences differ or either
\* input had it set, and is never reset.
C14_OrderIsCommonPrefix ==
    Merged =>
        /\ st.argumentForceOrder =
               CommonPrefix(prev.argumentForceOrder,
                            call.other.argumentForceOrder)
        /\ (prev.argumentForceOrder # call.other.argumentForceOrder
            \/ prev.ambiguousForceOrder \/ call.other.ambiguousForceOrder)
              => st.ambiguousForceOrder

\* two sequences of the same length that agree on their first entry and
\* differ on the second were merged
C14_Witness ==
    /\ Merged
    /\ Len(prev.argumentForceOrder) = 2
    /\ Len(call.other.argumentForceOrder) = 2
    /\ st.argumentForceOrder = <<prev.argumentForceOrder[1]>>
    /\ ~prev.ambiguousForceOrder /\ ~call.other.ambiguousForceOrder

(***************************************************************************)
(* C15                                                                     *)
(***************************************************************************)
\* C15: a value that is ambiguous in A or in B is ambiguous in A after
\* A.merge(B) and after A.mergeExit(B), never forced by a specific
\* instruction and never without an entry; A's escaped set after either
\* merge is the union of the two escaped sets.
C15_MergesKeepAmbiguity ==
    Merged =>
        /\ \A v \in OpVals :
              (Entry(prev, v) = ambiguous \/ Entry(call.other, v) = ambiguous)
                  => Entry(st, v) = ambiguous
        /\ st.escaped = prev.escaped \cup call.other.escaped

\* a state in which a value is ambiguous was merged with one in which a
\* specific instruction forced it, and the other state had escaped values
\* the receiver had not
C15_Witness ==
    /\ Merged
    /\ \E v \in OpVals :
          Entry(prev, v) = ambiguous /\ Entry(call.other, v) \in OpForces
    /\ ~(call.other.escaped \subseteq prev.escaped)

(***************************************************************************)
(* C16                                                                     *)
(***************************************************************************)
\* C16: A.merge(A) and A.mergeExit(A) leave every field of A unchanged and
\* report neither an update nor lost precision.
C16_SelfMergeIdempotent ==
    (Merged /\ call.other = prev) => (st = prev /\ call.res = ResNone)

\* a state holding a specific entry, an escaped value and a recorded order
\* was merged with itself
C16_Witness ==
    /\ Merged /\ call.other = prev
    /\ \E v \in OpVals : Entry(prev, v) \in OpForces
    /\ prev.escaped # {}
    /\ prev.argumentForceOrder # <<>>

(***************************************************************************)
(* C17                                                                     *)
(***************************************************************************)
\* the forced status of v moved from a to b along unknown -> forced by a
\* specific instruction -> ambiguous, or stayed
Widened(a, b) == a = b \/ a = null \/ b = ambiguous

\* C17 as stated: under declare, forcedAt, escape and sideeffect an entry of
\* forcedBy is never removed and never replaced by a different specific
\* instruction.
C17_EntriesNeverRemoved ==
    call.op \in {"declare", "forcedAt", "escape", "sideeffect"} =>
        \A v \in OpVals :
            /\ Widened(Entry(prev, v), Entry(st, v))
            /\ Count(prev, v) => Count(st, v)

\* C17 amended: under forcedAt, escape and sideeffect an entry of forcedBy is
\* never removed and never replaced by a different specific instruction;
\* declare(v) removes the entry of v and leaves every other entry as it is.
C17_EntriesRemovedByDeclareOnly ==
    /\ call.op \in {"forcedAt", "escape", "sideeffect"} =>
          \A v \in OpVals :
              /\ Widened(Entry(prev, v), Entry(st, v))
              /\ Count(prev, v) => Count(st, v)
    /\ call.op = "declare" =>
          \A v \in OpVals :
              Entry(st, v) = IF v = call.val THEN null ELSE Entry(prev, v)

\* forcedAt was called on a value that a different instruction had forced
C17_Witness ==
    /\ call.op = "forcedAt"
    /\ Entry(prev, call.val) \in OpForces \ {call.force}

(***************************************************************************)
(* C18                                                                     *)
(***************************************************************************)
\* C18: declare, forcedAt, escape and sideeffect return true exactly when
\* the state after the call differs from the state before it, and merge and
\* mergeExit report an update or lost precision exactly when they modified
\* the receiver.
C18_ChangeReportedExactly ==
    call.op # "none" =>
        /\ call.changed <=> st # prev
        /\ Merged => (call.res # ResNone <=> st # prev)

\* a merge changed nothing but the argument order of the receiver, and
\* reported it
C18_Witness ==
    /\ Merged
    /\ st # prev
    /\ [st EXCEPT !.argumentForceOrder = prev.argumentForceOrder] = prev
    /\ call.res = ResUpdated

(***************************************************************************)
(* C19 and C20: what phases B and C do to the forces                       *)
(***************************************************************************)
\* the value the uses of a force dominated by d are sent to (lines 527-530)
DominatorValue(d) ==
    IF d \in DOMAIN inlinedPromise THEN inlinedPromise[d] ELSE d

\* i is an instruction of the given kind applied directly to an eager MkArg
\* in the closure c
OnEagerMkArg(c, i, kind) ==
    /\ c.ins[i].kind = kind
    /\ IsKind(c.ins, c.ins[i].args[1], "MkArg")
    /\ isEager(c.ins, c.ins[i].args[1])

\* the forces in the CFG that have no recorded dominator
UndominatedForces ==
    {g \in DOMAIN code.ins :
        code.ins[g].kind = "Force" /\ InCode(code, g)
        /\ g \notin DOMAIN dominatedBy}

\* phase C leaves the forces without a recorded dominator in the CFG and
\* replaces none of their uses
UndominatedUntouched ==
    \A g \in UndominatedForces : InCode(code', g) /\ g \notin DOMAIN uses'

\* C19 as stated: when phase C has run, every Force f with a recorded
\* dominator d is out of the CFG and its former uses refer to the value
\* phase B inlined for d if d was inlined, to d otherwise; phase C neither
\* removes a Force without a recorded dominator nor replaces its uses.
C19_DominatedUsesGoToDominator ==
    [][(pc = "inlined" /\ pc' = "done") =>
          /\ \A f \in DOMAIN dominatedBy :
                /\ ~InCode(code', f)
                /\ f \in DOMAIN uses'
                /\ uses'[f] = DominatorValue(dominatedBy[f])
          /\ UndominatedUntouched]_vars

\* C19 amended: when phase C has run, every Force f with a recorded
\* dominator d is out of the CFG; its former uses refer to the payload of
\* the eager MkArg when f forced an eager MkArg directly (phase B had
\* deleted it), and otherwise to the value phase B inlined for d if d was
\* inlined, to d if not; phase C neither removes a Force without a recorded
\* dominator nor replaces its uses.
C19_DominatedUsesGoToDominatorOrPayload ==
    [][(pc = "inlined" /\ pc' = "done") =>
          /\ \A f \in DOMAIN dominatedBy :
                /\ ~InCode(code', f)
                /\ f \in DOMAIN uses'
                /\ uses'[f] =
                      IF OnEagerMkArg(orig, f, "Force")
                      THEN eagerArg(orig.ins, orig.ins[f].args[1])
                      ELSE DominatorValue(dominatedBy[f])
          /\ UndominatedUntouched]_vars

\* the pass has finished on a closure with a dominated force whose
\* dominator was inlined: its uses refer to the inlined result
C19_Witness ==
    /\ pc = "done"
    /\ \E f \in DOMAIN dominatedBy :
          /\ dominatedBy[f] \in DOMAIN inlinedPromise
          /\ ~InCode(code, f)
          /\ uses[f] = inlinedPromise[dominatedBy[f]]

\* the operand of the force f of closure c resolves, through casts and
\* forces, to an eager MkArg
ResolvesToEagerMkArg(c, f) ==
    LET mk == followCastsAndForce(c.ins, f)
    IN  /\ c.ins[f].kind = "Force"
        /\ IsKind(c.ins, mk, "MkArg")
        /\ isEager(c.ins, mk)

\* instruction i is out of the CFG and its former uses refer to the payload
\* of the eager MkArg mk
ReplacedByPayload(i, mk) ==
    /\ ~InCode(code, i)
    /\ i \in DOMAIN uses
    /\ uses[i] = eagerArg(orig.ins, mk)

\* C20 as stated: after phase B every Force whose operand resolves through
\* casts and forces to an eager MkArg is out of the CFG and its uses refer to
\* the MkArg's payload, whatever the analysis said about it; the same holds
\* of every CastType applied directly to an eager MkArg.
C20_EagerForcesReplaced ==
    pc = "inlined" =>
        \A i \in DOMAIN orig.ins :
            /\ ResolvesToEagerMkArg(orig, i)
                  => ReplacedByPayload(i, followCastsAndForce(orig.ins, i))
            /\ OnEagerMkArg(orig, i, "CastType")
                  => ReplacedByPayload(i, orig.ins[i].args[1])

\* C20 amended: after phase B every Force applied directly to an eager MkArg
\* is out of the CFG and its uses refer to the MkArg's payload, whatever the
\* analysis said about it; the same holds of every CastType applied directly
\* to an eager MkArg.
C20_DirectEagerForcesReplaced ==
    pc = "inlined" =>
        \A i \in DOMAIN orig.ins :
            (OnEagerMkArg(orig, i, "Force") \/ OnEagerMkArg(orig, i, "CastType"))
                => ReplacedByPayload(i, orig.ins[i].args[1])

\* phase B has removed a force of an eager MkArg that stood in a block only
\* reached through a deopt edge and that phase A had not classified
C20_Witness ==
    /\ pc = "inlined"
    /\ \E f \in DOMAIN orig.ins :
          /\ OnEagerMkArg(orig, f, "Force")
          /\ IsDeoptBlock(orig, BlockOf(orig, f))
          /\ f \notin strict /\ f \notin DOMAIN dominatedBy
          /\ ReplacedByPayload(f, orig.ins[f].args[1])

(***************************************************************************)
(* C23                                                                     *)
(***************************************************************************)
\* the values sideeffect() writes in state s: escaped and without an entry
Exposed(s) == {v \in s.escaped : ~Count(s, v)}

\* C23: sideeffect() makes the escaped values without a forcedBy entry
\* ambiguous and changes nothing else: every other entry, inScope, escaped,
\* the argument force order and its flag stay as they were.  So a value that
\* was unknown and not escaped before a sideeffect() is recorded as forced by
\* the instruction of the forcedAt that follows.
C23_SideeffectTouchesExposedOnly ==
    /\ [](call.op = "sideeffect" =>
            /\ \A v \in OpVals :
                  Entry(st, v) = IF v \in Exposed(prev) THEN ambiguous
                                 ELSE Entry(prev, v)
            /\ DOMAIN st.forcedBy \subseteq OpVals
            /\ st.inScope = prev.inScope
            /\ st.escaped = prev.escaped
            /\ st.argumentForceOrder = prev.argumentForceOrder
            /\ st.ambiguousForceOrder = prev.ambiguousForceOrder)
    /\ [][(/\ call.op = "sideeffect"
           /\ call'.op = "forcedAt"
           /\ ~Count(prev, call'.val)
           /\ call'.val \notin prev.escaped)
             => Entry(st', call'.val) = call'.force]_vars

\* sideeffect() ran on a state with an escaped value without an entry and
\* reported the change
C23_Witness ==
    /\ call.op = "sideeffect"
    /\ Exposed(prev) # {}
    /\ call.changed

(***************************************************************************)
(* C28                                                                     *)
(***************************************************************************)
\* no argument index stands twice in the sequence q
NoRepeat(q) == \A j, k \in 1..Len(q) : q[j] = q[k] => j = k

\* the instruction the transfer function is applied to next
NextInstr == code.bbs[cur.bb][cur.ip]

\* the next instruction is a Force of a parameter that may be lazy
ForcesLdArg ==
    /\ pc = "block" /\ cur.ip <= Len(code.bbs[cur.bb])
    /\ code.ins[NextInstr].kind = "Force"
    /\ LET a == followCasts(code.ins, code.ins[NextInstr].args[1])
       IN  IsKind(code.ins, a, "LdArg") /\ code.ins[a].lazy

\* C28: in every state the iteration reaches from the empty state, by
\* transfer-function steps and merges, argumentForceOrder holds no argument
\* index twice; the Force of a parameter that is already recorded, and any
\* Force met when ambiguousForceOrder is set, appends nothing.
C28_ForceOrderWithoutRepeats ==
    /\ [](/\ NoRepeat(st.argumentForceOrder)
          /\ NoRepeat(an.exit.argumentForceOrder)
          /\ \A b \in DOMAIN an.entry : NoRepeat(an.entry[b].argumentForceOrder))
    /\ [][(/\ pc = "block" /\ cur.ip <= Len(code.bbs[cur.bb])
           /\ code.ins[NextInstr].kind = "Force"
           /\ \/ st.ambiguousForceOrder
              \/ /\ ForcesLdArg
                 /\ code.ins[followCasts(code.ins,
                                code.ins[NextInstr].args[1])].n
                        \in Range(st.argumentForceOrder))
             => st'.argumentForceOrder = st.argumentForceOrder]_vars

\* the transfer function stands before the Force of a parameter that the
\* state already records
C28_Witness ==
    /\ ForcesLdArg
    /\ ~st.ambiguousForceOrder
    /\ code.ins[followCasts(code.ins, code.ins[NextInstr].args[1])].n
           \in Range(st.argumentForceOrder)

(***************************************************************************)
(* C29                                                                     *)
(***************************************************************************)
\* every value with a forcedBy entry in s is in scope in s
EntriesInScope(s) == DOMAIN s.forcedBy \subseteq s.inScope

\* s and t agree on everything but inScope
SameKnowledge(s, t) ==
    /\ s.forcedBy = t.forcedBy
    /\ s.escaped = t.escaped
    /\ s.argumentForceOrder = t.argumentForceOrder
    /\ s.ambiguousForceOrder = t.ambiguousForceOrder

\* C29: for states A and B in which every value with a forcedBy entry is in
\* scope, A.merge(B) and B.merge(A) end with the same forcedBy, escaped,
\* argumentForceOrder and ambiguousForceOrder, and so do A.mergeExit(B) and
\* B.mergeExit(A).
C29_MergeOrderIrrelevant ==
    (Merged /\ EntriesInScope(prev) /\ EntriesInScope(call.other)) =>
        SameKnowledge(st, IF call.op = "merge"
                          THEN merge(call.other, prev).st
                          ELSE mergeExit(call.other, prev).st)

\* two states were merged of which one had a value forced by a specific
\* instruction and the other had it in scope without an entry, and whose
\* recorded orders differed
C29_Witness ==
    /\ call.op = "merge"
    /\ EntriesInScope(prev) /\ EntriesInScope(call.other)
    /\ \E v \in OpVals :
          ForcedOnlyIn(prev, call.other, v) /\ Entry(prev, v) \in OpForces
    /\ prev.argumentForceOrder # call.other.argumentForceOrder

(***************************************************************************)
(* C24 and C25: the classification of phase A                              *)
(***************************************************************************)
\* C24: after phase A every Force queued for inlining has strict set, every
\* Force in needsUpdate is queued for inlining, and no Force that has strict
\* set or is queued for inlining has a recorded dominator.
C24_ClassificationNested ==
    pc # "start" =>
        /\ toInline \subseteq strict
        /\ needsUpdate \subseteq toInline
        /\ (strict \cup toInline) \cap DOMAIN dominatedBy = {}

\* phase A has classified a closure with a force that is strict and queued
\* for inlining and a force that it dominates
C24_Witness ==
    /\ pc = "classified"
    /\ toInline # {}
    /\ \E f \in DOMAIN dominatedBy : dominatedBy[f] \in toInline

\* the dominator the analysis names for the force f of the closure handed to
\* the pass, null when it names none
NamedDominator(f) ==
    getDominatingForce(orig.ins,
        resultIgnoringUnreachableExits(orig, nargs, an, f), f)

\* C25: dominatedBy never maps a Force to itself, so the assertion of phase C
\* holds; a Force for which the analysis names no dominator (its value is
\* unknown or ambiguously forced) is neither strict nor recorded as
\* dominated, and the pass runs to its end with the Force left in place.
C25_NoSelfDominator ==
    pc # "start" =>
        /\ \A f \in DOMAIN dominatedBy : dominatedBy[f] # f
        /\ \A f \in VisitedNoDeopt(orig) :
              (orig.ins[f].kind = "Force" /\ NamedDominator(f) = null)
                  => f \notin strict /\ f \notin DOMAIN dominatedBy

\* the pass has finished on a closure with a force of an ambiguously forced
\* value: the force is neither strict nor dominated and is still in the CFG
C25_Witness ==
    /\ pc = "done"
    /\ \E f \in VisitedNoDeopt(orig) :
          /\ orig.ins[f].kind = "Force"
          /\ LET a == followCasts(orig.ins, orig.ins[f].args[1])
                 s == resultIgnoringUnreachableExits(orig, nargs, an, f)
             IN  Count(s, a) /\ s.forcedBy[a] = ambiguous
          /\ f \notin strict /\ f \notin DOMAIN dominatedBy
          /\ InCode(code, f)

(***************************************************************************)
(* C26                                                                     *)
(***************************************************************************)
\* the instructions of the closure that the pass has created
Created == DOMAIN code.ins \ DOMAIN orig.ins

\* the forces that came into the closure with a cloned promise body
ClonedForces == {f \in Created : code.ins[f].kind = "Force"}

\* C26: the walk of phase B comes to an end on every classified closure,
\* with each queued Force inlined once and nothing else: one cloned body, one new
\* MkArg and one split per queued Force, one UpdatePromise per Force that
\* needed it.  The forces of the cloned bodies are in the CFG and were not
\* inlined, and every inserted MkArg and UpdatePromise is in the CFG.
C26_QueuedForcesInlinedOnce ==
    /\ pc = "classified" =>
          DOMAIN InlineBlocks(PassState, toInline, needsUpdate, 1).inlinedPromise
              = toInline
    /\ pc = "inlined" =>
          /\ DOMAIN inlinedPromise = toInline
          /\ Len(code.bbs) = Len(orig.bbs) + 2 * Cardinality(toInline)
          /\ Cardinality(Created) =
                 (Len(PromBody) + 1) * Cardinality(toInline)
                 + Cardinality(needsUpdate)
          /\ Cardinality({m \in Created : code.ins[m].kind = "MkArg"}) =
                 Cardinality(toInline)
          /\ Cardinality({u \in Created : code.ins[u].kind = "UpdatePromise"})
                 = Cardinality(needsUpdate)
          /\ Cardinality(ClonedForces) = Cardinality(toInline)
          /\ \A f \in ClonedForces :
                InCode(code, f) /\ f \notin DOMAIN inlinedPromise
          /\ \A m \in Created :
                code.ins[m].kind \in {"MkArg", "UpdatePromise"}
                    => InCode(code, m)

\* phase B has inlined a promise whose body holds a Force, with an
\* UpdatePromise inserted after the new MkArg
C26_Witness ==
    /\ pc = "inlined"
    /\ needsUpdate # {}
    /\ ClonedForces # {}
    /\ \E f \in toInline : inlinedPromise[f] \in ClonedForces

(***************************************************************************)
(* C22                                                                     *)
(***************************************************************************)
\* the forces of the closure handed to the pass for which phase A called
\* isSafeToInline, and the promise of the MkArg each resolves to
AskedFor == InlineCandidates(orig, strict, size)

\* C22: during one run of the pass Query::noDeopt is called at most once on
\* each promise, also when several classified forces resolve to it.
C22_OracleAskedOncePerPromise ==
    \A p \in DOMAIN asked : asked[p] <= 1

\* phase A has called isSafeToInline for two forces that resolve to the
\* same promise
C22_Witness ==
    /\ pc = "classified"
    /\ \E f, g \in AskedFor :
          /\ f # g
          /\ orig.ins[followCastsAndForce(orig.ins, f)].n =
                 orig.ins[followCastsAndForce(orig.ins, g)].n

(***************************************************************************)
(* The pass on one-block closures with longer bodies: a force, a cast and   *)
(* a force of the cast fit into one block.                                  *)
(***************************************************************************)
MaxChain == 3

ChainCodes ==
    {MkCode(eager, "Linear", body) :
        eager \in BOOLEAN, body \in Bodies(Shapes["Linear"], MaxChain)}

InitChain ==
    /\ code \in ChainCodes
    /\ orig = code
    /\ nargs \in 1..2
    /\ size = [closure |-> CodeSize(code), prom |-> 2,
              max |-> MaxSizeFrom(Unset)]
    /\ pc = "start"
    /\ an = InitAnalysis(code)
    /\ noDeopt \in [Promises(code) -> BOOLEAN]
    /\ isEagerProp = FALSE
    /\ forceOrder = <<>>
    /\ strict = {}
    /\ toInline = {}
    /\ needsUpdate = {}
    /\ dominatedBy = EmptyMap
    /\ inlinedPromise = EmptyMap
    /\ forcedMkArg = EmptyMap
    /\ uses = EmptyMap
    /\ cur = NoBlock
    /\ OpsIdle
    /\ Alone
    /\ DefaultLimits

SpecChain == InitChain /\ [][Next]_vars

(***************************************************************************)
(* C30                                                                     *)
(***************************************************************************)
\* phase C is about to meet the dominated force f: it is still in the CFG
\* when phase B has finished
MetByPhaseC(f) == pc = "inlined" /\ InCode(code, f)

\* C30: every Force recorded as a dominator in phase A is a Force of the
\* closure and never the sentinel, has no recorded dominator itself, and is
\* still in the CFG or has an inlined replacement when phase C substitutes
\* it for a force it dominates.
C30_DominatorsAlive ==
    \A f \in DOMAIN dominatedBy :
       LET d == dominatedBy[f]
       IN  /\ d # ambiguous
           /\ d \in DOMAIN orig.ins
           /\ orig.ins[d].kind = "Force"
           /\ d \notin DOMAIN dominatedBy
           /\ MetByPhaseC(f) =>
                 InCode(code, d) \/ d \in DOMAIN inlinedPromise

\* the part of C30 that holds: a recorded dominator is a Force of the
\* closure, not the sentinel, and has no recorded dominator
C30_DominatorsDoNotChain ==
    \A f \in DOMAIN dominatedBy :
       LET d == dominatedBy[f]
       IN  /\ d # ambiguous
           /\ d \in DOMAIN orig.ins
           /\ orig.ins[d].kind = "Force"
           /\ d \notin DOMAIN dominatedBy

\* the pass has finished and phase C has sent the uses of a dominated force
\* to its dominator, which phase B had deleted without an inlined value
C30_Witness ==
    /\ pc = "done"
    /\ \E f \in DOMAIN dominatedBy :
          /\ f \in DOMAIN uses
          /\ uses[f] = dominatedBy[f]
          /\ dominatedBy[f] \notin DOMAIN inlinedPromise
          /\ ~InCode(code, dominatedBy[f])

(***************************************************************************)
(* Two invocations of the pass.  The first is the one of the variables      *)
(* above; the second, on a closure of its own, is the record second, with   *)
(* the fields of the first.  Each step of either invocation is one phase;   *)
(* the steps of the two interleave in any order.                            *)
(***************************************************************************)
MaxTwo == 1

TwoCodes ==
    {MkCode(eager, "Linear", body) :
        eager \in BOOLEAN, body \in Bodies(Shapes["Linear"], MaxTwo)}

\* lines 376-380: an invocation about to start on closure c
Invocation(c, n, nd) ==
    [pc |-> "start", orig |-> c, code |-> c, nargs |-> n,
     size |-> [closure |-> CodeSize(c), prom |-> 2,
              max |-> MaxSizeFrom(Unset)],
     noDeopt |-> nd,
     isEagerProp |-> FALSE, forceOrder |-> <<>>, strict |-> {},
     toInline |-> {}, needsUpdate |-> {}, dominatedBy |-> EmptyMap,
     inlinedPromise |-> EmptyMap, forcedMkArg |-> EmptyMap,
     uses |-> EmptyMap]

\* lines 382-431: phase A of the invocation r
Classified(r) ==
    LET a == Analysis(r.code, r.nargs)
        dom == DominatingForces(r.code, r.nargs, a)
        oracle == [p \in Promises(r.code) |->
                      hasDeoptAnswer(p, ~r.noDeopt[p])]
        cand == InlineCandidates(r.code, dom, r.size)
        answer == [f \in cand |->
                      InlineAnswer(r.code, r.nargs, a, oracle, f)]
    IN  [r EXCEPT
           !.pc = "classified",
           !.isEagerProp = eagerLikeFunction(a.exit, r.nargs),
           !.forceOrder = a.exit.argumentForceOrder,
           !.strict = dom,
           !.toInline = {f \in cand : answer[f] # "NotSafeToInline"},
           !.needsUpdate =
               {f \in cand : answer[f] = "SafeToInlineWithUpdate"},
           !.dominatedBy =
               [f \in DominatedForces(r.code, r.nargs, a, dom) |->
                   getDominatingForce(r.code.ins,
                       resultIgnoringUnreachableExits(r.code, r.nargs, a, f),
                       f)],
           !.code = RemoveAll(r.code, DeadUpdates(r.code, r.nargs, a))]

\* the part of the invocation r that phases B and C rewrite
PassStateOf(r) ==
    [code |-> r.code, inlinedPromise |-> r.inlinedPromise,
     forcedMkArg |-> r.forcedMkArg, uses |-> r.uses]

\* lines 433-513: phase B of the invocation r
Inlined(r) ==
    LET ps == InlineBlocks(PassStateOf(r), r.toInline, r.needsUpdate, 1)
    IN  [r EXCEPT !.pc = "inlined", !.code = ps.code,
                  !.inlinedPromise = ps.inlinedPromise,
                  !.forcedMkArg = ps.forcedMkArg, !.uses = ps.uses]

\* lines 515-541: phase C of the invocation r
Replaced(r) ==
    LET q == SelectSeq(CodeOrder(r.code, 1),
                       LAMBDA i : r.code.ins[i].kind = "Force"
                                  /\ i \in DOMAIN r.dominatedBy)
        ps1 == ReplaceDominatedSeq(PassStateOf(r), r.dominatedBy, q)
        ps == ReplaceMkArgs(ps1, DOMAIN ps1.forcedMkArg)
    IN  [r EXCEPT !.pc = "done", !.code = ps.code, !.uses = ps.uses]

\* the next phase of the invocation r
PassStep(r) ==
    CASE r.pc = "start" -> Classified(r)
      [] r.pc = "classified" -> Inlined(r)
      [] r.pc = "inlined" -> Replaced(r)

\* the invocation on the closure of r, run alone up to the phase p
RunAlone(r, p) ==
    LET r0 == Invocation(r.orig, r.nargs, r.noDeopt)
    IN  CASE p = "start" -> r0
          [] p = "classified" -> Classified(r0)
          [] p = "inlined" -> Inlined(Classified(r0))
          [] p = "done" -> Replaced(Inlined(Classified(r0)))

\* the first invocation as a record
First ==
    [pc |-> pc, orig |-> orig, code |-> code, nargs |-> nargs, size |-> size,
     noDeopt |-> noDeopt, isEagerProp |-> isEagerProp,
     forceOrder |-> forceOrder, strict |-> strict, toInline |-> toInline,
     needsUpdate |-> needsUpdate, dominatedBy |-> dominatedBy,
     inlinedPromise |-> inlinedPromise, forcedMkArg |-> forcedMkArg,
     uses |-> uses]

InitTwo ==
    /\ code \in TwoCodes
    /\ orig = code
    /\ nargs \in 1..2
    /\ size = [closure |-> CodeSize(code), prom |-> 2,
              max |-> MaxSizeFrom(Unset)]
    /\ pc = "start"
    /\ an = InitAnalysis(code)
    /\ noDeopt \in [Promises(code) -> BOOLEAN]
    /\ isEagerProp = FALSE
    /\ forceOrder = <<>>
    /\ strict = {}
    /\ toInline = {}
    /\ needsUpdate = {}
    /\ dominatedBy = EmptyMap
    /\ inlinedPromise = EmptyMap
    /\ forcedMkArg = EmptyMap
    /\ uses = EmptyMap
    /\ cur = NoBlock
    /\ OpsIdle
    /\ asked = [p \in Promises(code) |-> 0]
    /\ DefaultLimits
    /\ \E c \in TwoCodes, n \in 1..2 :
          \E nd \in [Promises(c) -> BOOLEAN] :
             second = Invocation(c, n, nd)

\* a phase of the second invocation
StepSecond ==
    /\ second.pc \in {"start", "classified", "inlined"}
    /\ second' = PassStep(second)
    /\ UNCHANGED <<orig, code, nargs, size, pc, an, noDeopt, isEagerProp,
                   forceOrder, strict, toInline, needsUpdate, dominatedBy,
                   inlinedPromise, forcedMkArg, uses, cur, opVars, asked,
                   environ, wanted>>

NextTwo == Classify \/ Inline \/ ReplaceDominated \/ StepSecond

SpecTwo == InitTwo /\ [][NextTwo]_vars

(***************************************************************************)
(* C21                                                                     *)
(***************************************************************************)
\* what the pass leaves behind for the closure of the invocation r
Outcome(r) ==
    [strict |-> r.strict, isEagerProp |-> r.isEagerProp,
     forceOrder |-> r.forceOrder, code |-> r.code]

MaxEnvLen == 2

EnvChars == {"-", "0", "1", "x", " "}

RECURSIVE EnvValues(_)
\* the strings of at most n characters
EnvValues(n) ==
    IF n = 0 THEN {<<>>}
    ELSE LET shorter == EnvValues(n - 1)
         IN  shorter \cup {Append(s, ch) : s \in shorter, ch \in EnvChars}

Environments ==
    {Unset} \cup {[set |-> TRUE, value |-> s] : s \in EnvValues(MaxEnvLen)}

ClosureSizes == {0, 1, 9, 10, 11, 12, 2999, 3000, 3001}

PromiseSizes == {9, 10, 11}

WantedLimits == [closure : {1, 10}, prom : {9, 10}]

\* one-block closures with a Force of the MkArg, lazy or eager
SizeCodes ==
    {MkCode(eager, "Linear", <<[i |-> Force(P.a), b |-> 1]>>) :
        eager \in BOOLEAN}

InitSize ==
    /\ code \in SizeCodes
    /\ orig = code
    /\ nargs = 1
    /\ environ \in Environments
    /\ wanted \in WantedLimits
    /\ \E cs \in ClosureSizes, ps \in PromiseSizes :
          size = [closure |-> cs, prom |-> ps, max |-> MaxSizeFrom(environ)]
    /\ pc = "start"
    /\ an = InitAnalysis(code)
    /\ noDeopt = [p \in Promises(code) |-> TRUE]
    /\ isEagerProp = FALSE
    /\ forceOrder = <<>>
    /\ strict = {}
    /\ toInline = {}
    /\ needsUpdate = {}
    /\ dominatedBy = EmptyMap
    /\ inlinedPromise = EmptyMap
    /\ forcedMkArg = EmptyMap
    /\ uses = EmptyMap
    /\ cur = NoBlock
    /\ OpsIdle
    /\ Alone

SpecSize == InitSize /\ [][Next]_vars

(***************************************************************************)
(* C27                                                                     *)
(***************************************************************************)
\* the closure's size is at most the value of the parameter, a size_t: the
\* int it was initialised with when that is not negative, and a value above
\* every size when it is
AtMostMaxSize == size.max < 0 \/ size.closure <= size.max

\* phase A has run on a closure whose dominating force resolves to a lazy
\* MkArg: whether the promise was eligible shows in whether isSafeToInline,
\* and with it Query::noDeopt, was called
LazyClassified ==
    /\ pc # "start"
    /\ \E f \in strict :
          /\ IsKind(orig.ins, followCastsAndForce(orig.ins, f), "MkArg")
          /\ ~isEager(orig.ins, followCastsAndForce(orig.ins, f))

Eligible == \E p \in DOMAIN asked : asked[p] > 0

\* the policy of C27: at most the limit, or a promise below 10
SizePolicy ==
    LazyClassified =>
       (Eligible <=> (AtMostMaxSize \/ size.prom < 10))

\* the sizes of promises that are refused for their size in some closure
\* when the environment is e
RefusedSizes(e) ==
    {ps \in 0..(SmallPromise + 2) :
        \E cs \in ClosureSizes : ~SizeAllowsInline(MaxSizeFrom(e), cs, ps)}

\* the promise-size limit in force under e: the least size that is refused
PromiseLimit(e) ==
    CHOOSE ps \in RefusedSizes(e) : \A qs \in RefusedSizes(e) : ps <= qs

\* the closure-size limits that some environment puts in force
ClosureLimits == {MaxSizeFrom(e) : e \in Environments}

\* the promise-size limits that some environment puts in force
PromiseLimits ==
    {PromiseLimit(e) : e \in {e \in Environments : RefusedSizes(e) # {}}}

\* C27: a promise is eligible when the closure's size is at most
\* PROMISE_INLINER_MAX_SIZE (3000 by default, a closure of exactly that size
\* is not huge) whatever its own size, above that only when its size is
\* below 10, and both limits can be set from outside: some environment
\* gives the closure-size limit asked for, and some environment gives the
\* promise-size limit asked for.
C27_BothLimitsConfigurable ==
    pc # "start" =>
       /\ SizePolicy
       /\ ~environ.set => size.max = 3000
       /\ wanted.closure \in ClosureLimits
       /\ wanted.prom \in PromiseLimits

\* C27 as the code has it: the same policy, the closure-size limit can be
\* set from outside, and the promise-size limit is 10 under every
\* environment under which any promise is refused.  Stated of the pass once
\* phase A has read the parameter.
C27_OnlyClosureLimitConfigurable ==
    pc # "start" =>
       /\ SizePolicy
       /\ ~environ.set => size.max = 3000
       /\ wanted.closure \in ClosureLimits
       /\ PromiseLimits = {10}

\* phase A has run with the limit set from outside on a closure of exactly
\* the size of the limit and a promise of 10 or more: the closure is not
\* huge and the promise was eligible
C27_Witness ==
    /\ LazyClassified
    /\ environ.set
    /\ size.closure = size.max
    /\ size.prom >= 10
    /\ Eligible

=============================================================================
